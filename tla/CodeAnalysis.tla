----------------------------- MODULE CodeAnalysis -----------------------------
(***************************************************************************)
(* How decision_engine/local_code.py reads one source file: the symbols,   *)
(* call edges and implement relations found line by line, and the lines of *)
(* the file that are quoted around a finding.                              *)
(*                                                                         *)
(* A line is a record of what the regular expressions of the analyser, or  *)
(* the syntax tree of a Python file, see in it:                            *)
(*   class, kind      a class, struct or interface declared here           *)
(*   implements       the interfaces it names                              *)
(*   field            <<type, name>> of a field declaration, or <<>>       *)
(*   header, bodiless a method or function declared here; it has no body:  *)
(*                    a method ended by ";", a Go function only declared   *)
(*   calls            [receiver, qualifier, callee, below] in order        *)
(*   opens, closes    how many braces it opens and closes                  *)
(*   words            the words a query may name; low: a comment, an       *)
(*                    import, an annotation or a blank line                *)
(* and in a Python file                                                    *)
(*   indent           that of the statement it belongs to, or that follows *)
(*   calls            those of the statement, default arguments and base   *)
(*                    classes, on the line the statement or declaration    *)
(*                    starts on, each with the lines it is below that one  *)
(*   after            those the tree has after the body of a declaration:  *)
(*                    its decorators, which are above it, and annotation   *)
(* A file that does not parse has no declarations and no calls.            *)
(* A name is a word; "a.B" is the sequence of its parts.  An owner is the  *)
(* sequence of the enclosing declarations.                                 *)
(***************************************************************************)
EXTENDS Integers, Lists, FiniteSetsExt

CONSTANTS
    None,
    IgnoredNames,       \* CALL_IGNORED_NAMES
    MaxExcerptLines,    \* MAX_CODE_EXCERPT_LINES
    ScopeWindow         \* lines a brace is searched for (240)

Names == STRING \cup {None}
Kinds == {"class", "interface", "enum", "record", "struct",
          "method", "function"}
CallRefs == [receiver : Names, qualifier : Seq(Names), callee : Names,
             below : Int]
Lines == [class : Names, kind : Kinds, implements : Seq(Names),
          field : {<<>>} \cup Names \X Names,
          header : Names, bodiless : BOOLEAN, calls : Seq(CallRefs),
          after : Seq(CallRefs), opens : Nat, closes : Nat, indent : Nat,
          words : SUBSET Names, low : BOOLEAN]

MinOf(i, j) == IF i < j THEN i ELSE j
MaxOf(i, j) == IF i < j THEN j ELSE i

\* s \o t, for the groups of _merge_line_numbers
MergeLineNumbers(groups) ==
    Distinct(Only(FlattenSeq(groups), Nat \ {0}))

-----------------------------------------------------------------------------
(* One line after the other.  The state of an analysis: the class and the  *)
(* callable (<<>> or the one-element sequence of it) it is in, the brace   *)
(* depth since the callable's header, the types of the fields, for Python  *)
(* the stack of declarations, and what has been found.                     *)

Start == [class |-> None, callable |-> <<>>, depth |-> 0, fields |-> {},
          stack |-> <<>>, symbols |-> <<>>, edges |-> <<>>,
          relations |-> <<>>]

Symbol(owner, name, kind, n) ==
    [owner |-> owner, name |-> name, kind |-> kind, line |-> n]

Callable(owner, name) == [owner |-> owner, name |-> name]

Edge(caller, call, type, n) ==
    [caller |-> caller, callee |-> call.callee, qualifier |-> call.qualifier,
     receiver |-> call.receiver, type |-> type, line |-> n,
     resolved |-> <<>>, how |-> None, confidence |-> 0]

DeclareClass(a, line, n) ==
    IF line.class = None THEN a
    ELSE [a EXCEPT
            !.class = line.class,
            !.symbols = Append(@, Symbol(<<>>, line.class, line.kind, n)),
            !.relations = @ \o [i \in DOMAIN line.implements |->
                                  [type |-> line.class, line |-> n,
                                   interface |-> line.implements[i]]]]

\* a later declaration of the name replaces the type
DeclareField(a, line) ==
    IF a.class = None \/ a.callable # <<>> \/ line.field = <<>> THEN a
    ELSE [a EXCEPT !.fields =
            {f \in @ : <<f.class, f.name>> # <<a.class, line.field[2]>>}
              \cup {[class |-> a.class, type |-> line.field[1],
                     name |-> line.field[2]]}]

FieldType(a, receiver) ==
    LET known == {f \in a.fields : f.class = a.class /\ f.name = receiver}
    IN  IF known = {} THEN None ELSE (CHOOSE f \in known : TRUE).type

DeclareCallable(a, line, n, owner, kind) ==
    IF a.callable # <<>> \/ line.header = None THEN a
    ELSE [a EXCEPT
            !.symbols = Append(@, Symbol(owner, line.header, kind, n)),
            !.callable = IF kind = "method" /\ line.bodiless THEN <<>>
                         ELSE <<Callable(owner, line.header)>>,
            !.depth = 0]

\* slip: the callable lasts until a brace too many is closed
LeaveLate(a, line) ==
    LET depth == a.depth + line.opens - line.closes
    IN  IF depth < 0 THEN [a EXCEPT !.callable = <<>>, !.depth = depth]
        ELSE [a EXCEPT !.depth = depth]

\* the callable ends on the line whose braces balance its own
Leave(a, line) ==
    LET depth == a.depth + line.opens - line.closes
        braced == line.opens > 0 \/ line.closes > 0
    IN  IF depth <= 0 /\ braced
        THEN [a EXCEPT !.callable = <<>>, !.depth = depth]
        ELSE [a EXCEPT !.depth = depth]

\* the calls of a line, a header's own name and recursion left out
Calls(a, line, n) ==
    IF a.callable = <<>> THEN a
    ELSE LET caller == a.callable[1]
             called == Only(Distinct(line.calls),
                            {c \in ToSet(line.calls) :
                               c.callee \notin IgnoredNames \cup {caller.name}})
         IN  Leave([a EXCEPT !.edges = @ \o [i \in DOMAIN called |->
                      Edge(caller, called[i],
                           FieldType(a, called[i].receiver), n)]], line)

JavaLine(a, line, n) ==
    LET inClass == DeclareField(DeclareClass(a, line, n), line)
        owner   == IF inClass.class = None THEN <<>> ELSE <<inClass.class>>
        named   == IF line.header \in IgnoredNames THEN inClass
                   ELSE DeclareCallable(inClass, line, n, owner, "method")
    IN  Calls(named, line, n)

\* Go, JavaScript and TypeScript: functions have no owner, types no fields
FunctionLine(a, line, n) ==
    LET declared == [DeclareClass(a, [line EXCEPT !.implements = <<>>], n)
                       EXCEPT !.class = None]
    IN  Calls(DeclareCallable(declared, line, n, <<>>, "function"), line, n)

\* what is called within the innermost of these Python declarations belongs to
\* the innermost function of them
CallsIn(stack, calls, n) ==
    LET inside == {i \in DOMAIN stack : stack[i].kind = "function"}
        owner  == [i \in 1 .. Max(inside) - 1 |-> stack[i].name]
        caller == Callable(owner, stack[Max(inside)].name)
    IN  IF inside = {} THEN <<>>
        ELSE [i \in DOMAIN calls |->
                Edge(caller, calls[i], None, n + calls[i].below)]

\* a Python declaration ends where the indentation returns to its own; what
\* its node has after the body is visited then, the innermost one first
CloseDeclarations(a, indent) ==
    LET deeper == {d \in ToSet(a.stack) : d.indent >= indent}
        closed == Only(a.stack, deeper)
        after  == [i \in DOMAIN closed |->
                     closed[Len(closed) + 1 - i].after]
    IN  [a EXCEPT !.stack = Only(@, ToSet(@) \ deeper),
                  !.edges = @ \o FlattenSeq(after)]

PythonLine(a, line, n) ==
    LET outer == CloseDeclarations(a, line.indent)
        owner == [i \in DOMAIN outer.stack |-> outer.stack[i].name]
        name  == IF line.class # None THEN line.class ELSE line.header
        kind  == IF line.class # None THEN "class" ELSE "function"
        declared(after) == [name |-> name, indent |-> line.indent,
                            kind |-> kind, after |-> after]
        inner == IF name = None THEN outer.stack
                 ELSE Append(outer.stack, declared(<<>>))
        after == CallsIn(inner, line.after, n)
    IN  [outer EXCEPT
            !.stack   = IF name = None THEN @ ELSE Append(@, declared(after)),
            !.symbols = IF name = None THEN @
                        ELSE Append(@, Symbol(owner, name, kind, n)),
            !.edges   = @ \o CallsIn(inner, line.calls, n)]

(* _analyze_content: nothing is known of other languages.                  *)
AnalyzeLine(language, a, line, n) ==
    CASE language = "java"   -> JavaLine(a, line, n)
      [] language = "python" -> PythonLine(a, line, n)
      [] language \in {"go", "javascript", "typescript"} ->
                                FunctionLine(a, line, n)
      [] OTHER -> a

Analyze(language, lines) ==
    LET after[n \in 0 .. Len(lines)] ==
          IF n = 0 THEN Start
          ELSE AnalyzeLine(language, after[n - 1], lines[n], n)
    IN  IF language = "python" THEN CloseDeclarations(after[Len(lines)], 0)
        ELSE after[Len(lines)]

-----------------------------------------------------------------------------
(* The range of lines quoted for a finding.                                *)

\* how many braces are open after each line, counted from one of them
Depths(lines, from) ==
    LET depth[n \in 0 .. Len(lines)] ==
          IF n < from THEN 0
          ELSE depth[n - 1] + lines[n].opens - lines[n].closes
    IN  depth

Braces(lines, from, to) == Depths(lines, from)[to]

\* the lines on which the braces from a header on are balanced again
Balanced(lines, from) ==
    {n \in from .. Len(lines) :
        /\ \E k \in from .. n : lines[k].opens > 0
        /\ Braces(lines, from, n) <= 0
        /\ n - from <= ScopeWindow + 1}

\* slip: braces count as opened before one is seen
BracedScopeRangeAtOnce(lines, from) ==
    LET ends == {n \in from .. Len(lines) : Braces(lines, from, n) <= 0}
    IN  <<from, IF ends # {} THEN Min(ends)
                ELSE MinOf(Len(lines), from + MaxExcerptLines - 1)>>

BracedScopeRange(lines, from) ==
    <<from, IF Balanced(lines, from) # {} THEN Min(Balanced(lines, from))
            ELSE MinOf(Len(lines), from + MaxExcerptLines - 1)>>

\* up to the next declaration that is not indented deeper
PythonScopeRange(lines, from) ==
    LET next == {n \in from + 1 .. Len(lines) :
                    /\ ~lines[n].low
                    /\ lines[n].indent <= lines[from].indent
                    /\ lines[n].class # None \/ lines[n].header # None}
    IN  <<from, IF next # {} THEN Min(next) - 1
                ELSE MinOf(Len(lines), from + MaxExcerptLines - 1)>>

SymbolScopeRange(language, lines, symbol) ==
    IF language = "python" THEN PythonScopeRange(lines, symbol.line)
    ELSE BracedScopeRange(lines, symbol.line)

Within(range, line) == range[1] <= line /\ line <= range[2]

\* slip: the end of the range is left as it is
BoundedRangeOpenEnd(first, last, total) ==
    LET start == MaxOf(1, MinOf(first, total))
    IN  <<start, MaxOf(start, MinOf(last, total))>>

BoundedRange(first, last, total) ==
    LET start == MaxOf(1, MinOf(first, total))
        end   == MaxOf(start, MinOf(last, total))
    IN  <<start, IF end - start < MaxExcerptLines THEN end
                 ELSE MinOf(total, start + MaxExcerptLines - 1)>>

\* a few lines around the matches within the symbol, around the first of
\* them when they are far apart, around the symbol when it holds none
LineRange(language, lines, matches, primary) ==
    LET total  == Len(lines)
        scope  == SymbolScopeRange(language, lines, primary[1])
        scoped == Only(matches, scope[1] .. scope[2])
        first  == Min(ToSet(scoped))
        last   == Max(ToSet(scoped))
        start  == MaxOf(scope[1], scoped[1] - 3)
    IN  IF primary = <<>> THEN
            IF matches = <<>> THEN <<0, 0>>
            ELSE BoundedRange(MaxOf(1, Min(ToSet(matches)) - 2),
                              MinOf(total, Max(ToSet(matches)) + 4), total)
        ELSE IF scoped = <<>> THEN
            BoundedRange(MaxOf(1, primary[1].line - 1),
                         MinOf(total, primary[1].line + 5), total)
        ELSE IF last - first + 1 > MaxExcerptLines THEN
            BoundedRange(start, MinOf(scope[2], start + MaxExcerptLines - 1),
                         total)
        ELSE BoundedRange(MaxOf(scope[1], first - 2),
                          MinOf(scope[2], last + 4), total)

=============================================================================
