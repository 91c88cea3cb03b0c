--------------------------- MODULE MCCodeInspection ---------------------------
(* Small repositories for CodeInspection: every well-formed Java class of  *)
(* seven lines beside a fixed Java service, a Python module, a Go file, a  *)
(* configuration file, and files that may not be read.                     *)
EXTENDS CodeInspection

Blank ==
    [class |-> None, kind |-> "class", implements |-> <<>>, field |-> <<>>,
     header |-> None, bodiless |-> FALSE, calls |-> <<>>, after |-> <<>>,
     opens |-> 0, closes |-> 0, indent |-> 0, words |-> {}, low |-> FALSE]

Call(receiver, callee) ==
    [receiver |-> receiver, qualifier |-> <<>>, callee |-> callee,
     below |-> 0]
Class(name) == [Blank EXCEPT !.class = name, !.opens = 1, !.words = {name}]
Header(name) == [Blank EXCEPT !.header = name, !.words = {name}]
CallWords(c) == ({c.receiver, c.callee} \cup ToSet(c.qualifier)) \ {None}
CallingAll(calls) ==
    [Blank EXCEPT !.calls = calls,
                  !.words = UNION {CallWords(c) : c \in ToSet(calls)}]
Calling(call) == CallingAll(<<call>>)
Close == [Blank EXCEPT !.closes = 1]

MembersOfA ==
    {[Blank EXCEPT !.field = <<"Runner", "b">>, !.words = {"Runner", "b"}],
     [Header("run") EXCEPT !.opens = 1],
     Header("stop"), [Header("halt") EXCEPT !.bodiless = TRUE],
     [Calling(Call("b", "send")) EXCEPT !.header = "one", !.opens = 1,
                                        !.closes = 1, !.words = @ \cup {"one"}],
     [Blank EXCEPT !.opens = 1], Close,
     Calling(Call("b", "send")),
     [Calling(Call(None, "log")) EXCEPT !.opens = 1]}

ClassA(members) ==
    <<[Class("A") EXCEPT !.implements = <<"Base">>, !.words = {"A", "Base"}]>>
      \o members \o <<Close>>

\* members at depth 1, statements deeper, a body right after its header
WellFormed(lines) ==
    Braces(lines, 1, Len(lines)) = 0 /\ \A n \in 2 .. Len(lines) :
        LET depth == Braces(lines, 1, n - 1)
            line == lines[n]
            bare(l) == l.header # None /\ ~l.bodiless /\ l.opens = 0
            block == line.opens = 1 /\ line.header = None /\ line.calls = <<>>
        IN  /\ depth > 0
            /\ Braces(lines, 1, n) = 0 <=> n = Len(lines)
            /\ line.header # None \/ line.field # <<>> => depth = 1
            /\ line.calls # <<>> /\ line.header = None => depth > 1
            /\ bare(lines[n - 1]) <=> block

ClassesA == {f \in {ClassA(m) : m \in [1 .. 5 -> MembersOfA]} : WellFormed(f)}

SenderService ==
    <<[Class("Sender") EXCEPT !.implements = <<"Runner">>,
                              !.words = {"Sender", "Runner"}],
      [Header("send") EXCEPT !.opens = 1],
      CallingAll(<<Call(None, "log"), Call("q", "put"), Call("q", "run")>>),
      Close, Close>>

\* a decorator above the method, a default argument, a call on two lines, and
\* the end of the file within a declaration
Worker ==
    <<[Blank EXCEPT !.class = "Worker", !.words = {"Worker"}],
      [Blank EXCEPT !.indent = 1, !.words = {"one"}, !.low = TRUE],
      [Header("send") EXCEPT !.indent = 1,
                             !.calls = <<Call(None, "one")>>,
                             !.after = <<[Call(None, "one") EXCEPT
                                            !.below = -1]>>],
      [Calling([Call(None, "log") EXCEPT !.below = 1]) EXCEPT !.indent = 2],
      [Blank EXCEPT !.indent = 2],
      [Calling([Call(None, "send") EXCEPT !.qualifier = <<"Worker">>])
         EXCEPT !.indent = 2],
      [Header("log") EXCEPT !.calls = <<Call(None, "stop")>>,
                            !.after = <<Call(None, "q")>>,
                            !.words = {"log", "stop"}]>>

\* the second function is only declared, and takes the calls of the next
GoFile ==
    <<[Blank EXCEPT !.class = "Runner", !.kind = "interface",
                    !.words = {"Runner"}],
      [Header("log") EXCEPT !.opens = 1],
      CallingAll(<<Call("b", "run"), Call("q", "run")>>), Close,
      [Header("one") EXCEPT !.bodiless = TRUE],
      [Header("stop") EXCEPT !.opens = 1],
      Calling(Call(None, "send")), Close>>

Entry(path, target, language, lines, score) ==
    [path |-> path, target |-> target, inside |-> TRUE, size |-> "small",
     language |-> language, lines |-> lines, score |-> score]

Beside ==
    {<<Entry("Sender.java", "Sender.java", "java", SenderService, 3),
       Entry("worker.py", "worker.py", "python", Worker, 1),
       Entry("notes.yml", "token.yml", "text", <<Calling(Call("b", "send"))>>, 1),
       Entry("link.go", "log.go", "go", GoFile, 1)>>,
     <<Entry("app.yml", "app.yml", "text", <<Calling(Call("b", "send"))>>, 1),
       [Entry("out.py", "out.py", "python", Worker, 1) EXCEPT !.inside = FALSE],
       [Entry("big.py", "big.py", "python", Worker, 1) EXCEPT !.size = "large"],
       [Entry("x.py", "x.py", "python", Worker, 1) EXCEPT !.size = "unreadable"],
       Entry("log.go", "log.go", "go", GoFile, 1),
       Entry("link.go", "log.go", "go", GoFile, 1)>>}

Queries == {<<<<"Runner", "send">>>>, <<<<"the", "A">>, <<"log">>, <<"b">>>>,
            <<<<"q">>>>}

MCInspections ==
    [state : {"ready"}, query : Queries, maxHits : {2},
     entries : {<<Entry("A.java", "A.java", "java", a, 1)>> \o b :
                  a \in ClassesA, b \in Beside}]
      \cup [state : {"ready", "disabled", "no_mapping", "repo_unavailable"},
            query : {<<<<"the">>>>}, maxHits : {2}, entries : {<<>>}]
      \cup [state : {"ready"}, query : {<<<<"absent">>>>}, maxHits : {0},
            entries : Beside]

MCWeight == [w \in {"Runner", "send", "A", "log", "q", "absent", "context",
                    "Sender", "run", "stop", "halt", "one", "put", "Worker",
                    "Base", "b"}
               |-> IF w = "Runner" THEN 4 ELSE 1]
=============================================================================
