------------------------- MODULE CodeInspection_proofs -------------------------
(***************************************************************************)
(* Proofs about CodeInspection, for any repository, query and limits.      *)
(*                                                                         *)
(* InspectionInv is inductive: the files scanned are allowed entries with  *)
(* an analysis in which a callable encloses each call (AnalyzeType, by     *)
(* induction over the lines), and the hits are one per file, limited, and  *)
(* name such files only, with a range that shows what they are about.      *)
(***************************************************************************)
EXTENDS CodeInspection, Lists_proofs, FiniteSetTheorems, TLAPS

-----------------------------------------------------------------------------
(* What is found in files F, at the places L of a file.                    *)
Callables == [owner : Seq(Names), name : Names]
Symbols(L) == [owner : Seq(Names), name : Names, kind : Kinds, line : L]
Targets(F) == [file : F, symbol : Symbols(Nat)]
Hows == {None, "receiver_type", "qualified_callee", "symbol_name"}
Edges(F, L) ==
    [caller : Callables, callee : Names, qualifier : Seq(Names),
     receiver : Names, type : Names, line : L,
     resolved : Seq(Targets(F)), how : Hows, confidence : Nat]
Relations(L) == [type : Names, line : L, interface : Names]
Fields == [class : Names, type : Names, name : Names]
Declarations(F, L) ==
    [name : Names, indent : Nat, kind : Kinds, after : Seq(Edges(F, L))]
Analyses(F, L) ==
    [class : Names, callable : Seq(Callables), depth : Int,
     fields : SUBSET Fields, stack : Seq(Declarations(F, L)),
     symbols : Seq(Symbols(L)), edges : Seq(Edges(F, L)),
     relations : Seq(Relations(L))]

-----------------------------------------------------------------------------
(* One file.                                                               *)

LEMMA StartType ==
  ASSUME NEW F, NEW L
  PROVE  Start \in Analyses(F, L)
BY DEF Start, Analyses, Names

LEMMA DeclareClassType ==
  ASSUME NEW F, NEW L, NEW a \in Analyses(F, L), NEW line \in Lines, NEW n \in L
  PROVE  LET b == DeclareClass(a, line, n)
         IN  /\ b \in Analyses(F, L)
             /\ b.callable = a.callable /\ b.depth = a.depth
             /\ b.edges = a.edges
             /\ ToSet(a.symbols) \subseteq ToSet(b.symbols)
<1> DEFINE b == DeclareClass(a, line, n)
           s == Symbol(<<>>, line.class, line.kind, n)
           r == [i \in DOMAIN line.implements |->
                   [type |-> line.class, line |-> n,
                    interface |-> line.implements[i]]]
<1>1. CASE line.class = None
  BY <1>1 DEF DeclareClass
<1>2. CASE line.class # None
  <2>1. /\ line.class \in Names /\ line.kind \in Kinds
        /\ line.implements \in Seq(Names)
    BY DEF Lines
  <2>2. s \in Symbols(L)
    BY <2>1 DEF Symbol, Symbols
  <2>3. r \in Seq(Relations(L))
    <3>1. \A i \in DOMAIN line.implements : line.implements[i] \in Names
      BY <2>1
    <3>2. \A i \in DOMAIN line.implements : r[i] \in Relations(L)
      BY <2>1, <3>1 DEF Relations
    <3>3. DOMAIN line.implements = 1 .. Len(line.implements)
          /\ Len(line.implements) \in Nat
      BY <2>1
    <3>4. r \in [1 .. Len(line.implements) -> Relations(L)]
      BY <3>2, <3>3
    <3> HIDE DEF r
    <3> QED BY <3>3, <3>4
  <2> HIDE DEF r, s
  <2>4. /\ a.symbols \in Seq(Symbols(L)) /\ a.relations \in Seq(Relations(L))
    BY DEF Analyses
  <2>5. /\ Append(a.symbols, s) \in Seq(Symbols(L))
        /\ a.relations \o r \in Seq(Relations(L))
    BY <2>2, <2>3, <2>4
  <2>6. b = [a EXCEPT !.class = line.class,
                      !.symbols = Append(a.symbols, s),
                      !.relations = a.relations \o r]
    BY <1>2 DEF DeclareClass, r, s
  <2>7. ToSet(a.symbols) \subseteq ToSet(Append(a.symbols, s))
    BY <2>2, <2>4, ToSetAppend
  <2> HIDE DEF b
  <2>8. /\ b \in Analyses(F, L)
        /\ b.callable = a.callable /\ b.depth = a.depth /\ b.edges = a.edges
        /\ b.symbols = Append(a.symbols, s)
    BY <2>1, <2>5, <2>6 DEF Analyses
  <2> QED BY <2>7, <2>8 DEF b
<1> QED BY <1>1, <1>2

LEMMA DeclareFieldType ==
  ASSUME NEW F, NEW L, NEW a \in Analyses(F, L), NEW line \in Lines
  PROVE  LET b == DeclareField(a, line)
         IN  /\ b \in Analyses(F, L)
             /\ b.callable = a.callable /\ b.depth = a.depth
             /\ b.edges = a.edges /\ b.symbols = a.symbols
<1> DEFINE b == DeclareField(a, line)
           fields == {f \in a.fields :
                        <<f.class, f.name>> # <<a.class, line.field[2]>>}
                       \cup {[class |-> a.class, type |-> line.field[1],
                              name |-> line.field[2]]}
<1>1. CASE b = a
  BY <1>1
<1>2. CASE b # a
  <2>1. line.field # <<>> /\ b = [a EXCEPT !.fields = fields]
    BY <1>2 DEF DeclareField
  <2>2. line.field[1] \in Names /\ line.field[2] \in Names
    BY <2>1 DEF Lines
  <2>3. fields \in SUBSET Fields
    BY <2>2 DEF Fields, Analyses
  <2> HIDE DEF fields, b
  <2>4. /\ b \in Analyses(F, L)
        /\ b.callable = a.callable /\ b.depth = a.depth
        /\ b.edges = a.edges /\ b.symbols = a.symbols
    BY <2>1, <2>3 DEF Analyses
  <2> QED BY <2>4 DEF b
<1> QED BY <1>1, <1>2

LEMMA FieldTypeType ==
  ASSUME NEW F, NEW L, NEW a \in Analyses(F, L), NEW receiver
  PROVE  FieldType(a, receiver) \in Names
BY DEF FieldType, Analyses, Fields, Names

LEMMA LineTypes ==
  ASSUME NEW line \in Lines
  PROVE  /\ line.opens \in Nat /\ line.closes \in Nat
         /\ line.indent \in Nat /\ line.words \subseteq Names
         /\ line.bodiless \in BOOLEAN /\ line.low \in BOOLEAN
         /\ line.class \in Names /\ line.header \in Names
         /\ line.kind \in Kinds /\ line.calls \in Seq(CallRefs)
         /\ line.after \in Seq(CallRefs)
BY DEF Lines

LEMMA BracesLoop ==
  ASSUME NEW lines \in Seq(Lines), NEW from \in 1 .. Len(lines)
  PROVE  /\ \A n \in 0 .. Len(lines) : Braces(lines, from, n) \in Int
         /\ \A n \in 0 .. from - 1 : Braces(lines, from, n) = 0
         /\ \A n \in from .. Len(lines) :
               Braces(lines, from, n) = Braces(lines, from, n - 1)
                                          + lines[n].opens - lines[n].closes
<1> DEFINE N == Len(lines)
           add(d, n) == IF n < from THEN 0
                        ELSE d + lines[n].opens - lines[n].closes
           Loop(f) == [n \in 0 .. N |-> IF n < from THEN 0
                                        ELSE f[n - 1] + lines[n].opens
                                               - lines[n].closes]
           body == [n \in 1 .. N |-> [d \in Int |-> add(d, n)]]
           depth == CHOOSE g : g = Loop(g)
<1>1. /\ N \in Nat /\ from \in 1 .. N
      /\ \A n \in 1 .. N : lines[n].opens \in Nat /\ lines[n].closes \in Nat
  <2>1. Len(lines) \in Nat /\ \A n \in 1 .. Len(lines) : lines[n] \in Lines
    OBVIOUS
  <2> QED BY <2>1, LineTypes
<1>2. \A n \in 1 .. N : \A d \in Int : add(d, n) \in Int
  BY <1>1
<1>3. depth = Loop(depth)
  <2>1. body \in Bodies(N, Int)
    <3> HIDE DEF N, add
    <3> QED BY <1>2 DEF Bodies
  <2>2. PICK f \in Values(N, Int) : Loops(f, N, 0, body)
    <3>1. N \in Nat /\ 0 \in Int
      OBVIOUS
    <3> HIDE DEF N, body
    <3> QED BY <2>1, <3>1, RecursionExists
  <2>3. f \in [0 .. N -> Int] /\ f[0] = 0
    BY <2>2 DEF Values, Loops
  <2>4. ASSUME NEW n \in 1 .. N
        PROVE  f[n] = add(f[n - 1], n)
    <3>1. n - 1 \in 0 .. N
      BY <1>1
    <3>2. f[n - 1] \in Int
      BY <2>3, <3>1
    <3>3. f[n] = body[n][f[n - 1]]
      BY <2>2 DEF Loops
    <3> HIDE DEF N, add
    <3> QED BY <3>2, <3>3
  <2>5. f = Loop(f)
    <3>1. \A n \in 0 .. N : f[n] = IF n < from THEN 0
                                   ELSE f[n - 1] + lines[n].opens
                                          - lines[n].closes
      BY <1>1, <2>3, <2>4
    <3> HIDE DEF N
    <3> QED BY <2>3, <3>1
  <2> HIDE DEF Loop
  <2> QED BY <2>5
<1>4. \A n : Braces(lines, from, n) = depth[n]
  BY DEF Braces, Depths
<1> HIDE DEF depth
<1>5. \A n \in 0 .. N : depth[n] = IF n < from THEN 0
                                   ELSE depth[n - 1] + lines[n].opens
                                          - lines[n].closes
  <2> HIDE DEF N
  <2> QED BY <1>3
<1> DEFINE G == {n \in 0 .. N : depth[n] \in Int}
<1>6. 0 \in G
  BY <1>1, <1>5
<1>7. ASSUME NEW n \in 1 .. N, n - 1 \in G
      PROVE  n \in G
  <2>1. n \in 0 .. N /\ depth[n - 1] \in Int
    BY <1>1, <1>7
  <2>2. lines[n].opens \in Int /\ lines[n].closes \in Int
    BY <1>1
  <2>3. depth[n] \in Int
    BY <1>5, <2>1, <2>2
  <2> QED BY <2>1, <2>3
<1>8. \A n \in 0 .. N : n \in G
  <2> HIDE DEF G
  <2> QED BY <1>1, <1>6, <1>7, UpTo
<1>9. \A n \in 0 .. N : Braces(lines, from, n) \in Int
  BY <1>4, <1>8
<1>10. \A n \in 0 .. from - 1 : Braces(lines, from, n) = 0
  BY <1>1, <1>4, <1>5
<1>11. \A n \in from .. N :
          Braces(lines, from, n) = Braces(lines, from, n - 1)
                                     + lines[n].opens - lines[n].closes
  BY <1>1, <1>4, <1>5
<1> QED BY <1>9, <1>10, <1>11

\* the braces from line m on are not balanced on line k
Opened(lines, m, k) ==
    Braces(lines, m, k) > 0 \/ \A j \in m .. k : lines[j].opens = 0

\* callable c is declared on line m and still open when line n begins
Encloses(language, lines, symbols, c, m, n) ==
    /\ m \in 1 .. n
    /\ lines[m].header = c.name /\ c.name # None
    /\ language = "java" => ~lines[m].bodiless
    /\ \A k \in m .. n - 1 : Opened(lines, m, k)
    /\ \E s \in ToSet(symbols) :
          s.name = c.name /\ s.owner = c.owner /\ s.line = m

\* the analysis is in no callable, or counts the braces of the one it is in
\* when line n has been looked for declarations, and when it is done
Entered(language, lines, a, n) ==
    a.callable # <<>> =>
      \E m \in 1 .. n : /\ Encloses(language, lines, a.symbols, a.callable[1], m, n)
                        /\ a.depth = Braces(lines, m, n - 1)
Inside(language, lines, a, n) ==
    a.callable # <<>> =>
      \E m \in 1 .. n :
        /\ Encloses(language, lines, a.symbols, a.callable[1], m, n + 1)
                        /\ a.depth = Braces(lines, m, n)
EdgesEnclosed(language, lines, a) ==
    \A e \in ToSet(a.edges) :
        \E m \in 1 .. e.line :
           Encloses(language, lines, a.symbols, e.caller, m, e.line)

LEMMA EnclosesMore ==
  ASSUME NEW language, NEW lines, NEW s, NEW t, ToSet(s) \subseteq ToSet(t),
         NEW c, NEW m, NEW n, Encloses(language, lines, s, c, m, n)
  PROVE  Encloses(language, lines, t, c, m, n)
BY DEF Encloses

LEMMA DeclareCallableType ==
  ASSUME NEW F, NEW language, NEW lines \in Seq(Lines), NEW n \in 1 .. Len(lines),
         NEW a \in Analyses(F, 1 .. Len(lines)),
         NEW owner \in Seq(Names), NEW kind \in Kinds
  PROVE  LET b == DeclareCallable(a, lines[n], n, owner, kind)
         IN  /\ b \in Analyses(F, 1 .. Len(lines))
             /\ b.edges = a.edges
             /\ ToSet(a.symbols) \subseteq ToSet(b.symbols)
             /\ /\ Entered(language, lines, a, n)
                /\ kind = "method" \/ language # "java"
                => Entered(language, lines, b, n)
<1> DEFINE L == 1 .. Len(lines)
           line == lines[n]
           b == DeclareCallable(a, line, n, owner, kind)
           s == Symbol(owner, line.header, kind, n)
           c == Callable(owner, line.header)
           callable == IF kind = "method" /\ line.bodiless THEN <<>> ELSE <<c>>
<1>1. CASE a.callable # <<>> \/ line.header = None
  BY <1>1 DEF DeclareCallable
<1>2. CASE a.callable = <<>> /\ line.header # None
  <2>1. line.header \in Names /\ line.bodiless \in BOOLEAN
    BY LineTypes
  <2>2. s \in Symbols(L) /\ c \in Callables
    BY <2>1 DEF Symbol, Symbols, Callable, Callables, Kinds
  <2>3. callable \in Seq(Callables)
    <3> HIDE DEF c
    <3> QED BY <2>2
  <2>4. a.symbols \in Seq(Symbols(L))
    BY DEF Analyses
  <2>5. b = [a EXCEPT !.symbols = Append(a.symbols, s), !.callable = callable,
                      !.depth = 0]
    BY <1>2 DEF DeclareCallable
  <2>6. /\ Append(a.symbols, s) \in Seq(Symbols(L))
        /\ ToSet(Append(a.symbols, s)) = ToSet(a.symbols) \cup {s}
    <3> HIDE DEF s, L
    <3> QED BY <2>2, <2>4, ToSetAppend
  <2>7. /\ b \in Analyses(F, L) /\ b.edges = a.edges
        /\ b.symbols = Append(a.symbols, s)
        /\ b.callable = callable /\ b.depth = 0
    <3> DEFINE t == Append(a.symbols, s)
               zero == 0
    <3>1. t \in Seq(Symbols(L)) /\ zero \in Int /\ a \in Analyses(F, L)
      BY <2>6
    <3>2. b = [a EXCEPT !.symbols = t, !.callable = callable, !.depth = zero]
      BY <2>5
    <3> HIDE DEF s, callable, b, t, zero, L
    <3>3. /\ b \in Analyses(F, L) /\ b.edges = a.edges /\ b.symbols = t
          /\ b.callable = callable /\ b.depth = zero
      BY <2>3, <3>1, <3>2 DEF Analyses
    <3> QED BY <3>3 DEF t, zero
  <2>8. ASSUME kind = "method" \/ language # "java"
        PROVE  Entered(language, lines, b, n)
    <3> SUFFICES ASSUME callable # <<>>
                 PROVE  /\ Encloses(language, lines, b.symbols, c, n, n)
                        /\ 0 = Braces(lines, n, n - 1)
      <4>1. n \in 1 .. n
        OBVIOUS
      <4>2. callable # <<>> => callable[1] = c
        OBVIOUS
      <4> HIDE DEF b, c, callable
      <4> QED BY <2>7, <4>1, <4>2 DEF Entered
    <3>1. language = "java" => ~line.bodiless
      BY <2>1, <2>8
    <3>2. s \in ToSet(b.symbols)
      BY <2>6, <2>7
    <3>3. s.name = c.name /\ s.owner = c.owner /\ s.line = n
          /\ line.header = c.name
      BY DEF Symbol, Callable
    <3>4. Encloses(language, lines, b.symbols, c, n, n)
      <4>1. n \in 1 .. n /\ n .. n - 1 = {}
        OBVIOUS
      <4>2. \A k \in n .. n - 1 : Opened(lines, n, k)
        BY <4>1
      <4>3. line.header # None
        BY <1>2
      <4> HIDE DEF b, s, c
      <4> QED BY <3>1, <3>2, <3>3, <4>1, <4>2, <4>3 DEF Encloses
    <3>5. 0 = Braces(lines, n, n - 1)
      BY BracesLoop
    <3> QED BY <3>4, <3>5
  <2> HIDE DEF b, L
  <2> QED BY <2>6, <2>7, <2>8 DEF b, L
<1> QED BY <1>1, <1>2

LEMMA LeaveType ==
  ASSUME NEW F, NEW language, NEW lines \in Seq(Lines), NEW n \in 1 .. Len(lines),
         NEW a \in Analyses(F, 1 .. Len(lines)), a.callable # <<>>
  PROVE  LET b == Leave(a, lines[n])
         IN  /\ b \in Analyses(F, 1 .. Len(lines))
             /\ b.edges = a.edges /\ b.symbols = a.symbols
             /\ Entered(language, lines, a, n) => Inside(language, lines, b, n)
<1> DEFINE L == 1 .. Len(lines)
           line == lines[n]
           b == Leave(a, line)
           depth == a.depth + line.opens - line.closes
           braced == line.opens > 0 \/ line.closes > 0
           callable == IF depth <= 0 /\ braced THEN <<>> ELSE a.callable
<1>1. /\ line.opens \in Nat /\ line.closes \in Nat
      /\ a.depth \in Int /\ a.callable \in Seq(Callables)
  BY LineTypes DEF Analyses
<1>2. /\ b \in Analyses(F, L)
      /\ b.edges = a.edges /\ b.symbols = a.symbols
      /\ b.depth = depth /\ b.callable = callable
  <2>1. depth \in Int /\ callable \in Seq(Callables)
    BY <1>1
  <2>2. b = [a EXCEPT !.callable = callable, !.depth = depth]
    <3>1. a = [a EXCEPT !.callable = a.callable]
      BY DEF Analyses
    <3> QED BY <3>1 DEF Leave, Analyses
  <2> HIDE DEF b, callable, depth
  <2> QED BY <2>1, <2>2 DEF Analyses
<1>3. ASSUME Entered(language, lines, a, n), callable # <<>>
      PROVE  \E m \in 1 .. n :
                /\ Encloses(language, lines, a.symbols, a.callable[1], m, n + 1)
                /\ depth = Braces(lines, m, n)
  <2>1. PICK m \in 1 .. n :
           /\ Encloses(language, lines, a.symbols, a.callable[1], m, n)
           /\ a.depth = Braces(lines, m, n - 1)
    BY <1>3 DEF Entered
  <2>2. depth = Braces(lines, m, n)
    <3>1. m \in 1 .. Len(lines) /\ n \in m .. Len(lines)
      OBVIOUS
    <3>2. Braces(lines, m, n) = Braces(lines, m, n - 1)
                                  + lines[n].opens - lines[n].closes
      BY <3>1, BracesLoop
    <3> QED BY <2>1, <3>2
  <2>3. Opened(lines, m, n)
    <3>1. depth > 0 \/ (line.opens = 0 /\ line.closes = 0)
      BY <1>1, <1>3
    <3>2. CASE depth > 0
      BY <2>2, <3>2 DEF Opened
    <3>3. CASE line.opens = 0 /\ line.closes = 0 /\ ~(depth > 0)
      <4>1. \A j \in m .. n - 1 : lines[j].opens = 0
        <5>1. CASE m = n
          BY <5>1
        <5>2. CASE m # n
          <6>1. n - 1 \in m .. n - 1
            BY <5>2
          <6>2. Opened(lines, m, n - 1)
            BY <2>1, <6>1 DEF Encloses
          <6>3. ~(Braces(lines, m, n - 1) > 0)
            BY <1>1, <2>1, <3>3
          <6> QED BY <6>2, <6>3 DEF Opened
        <5> QED BY <5>1, <5>2
      <4>2. \A j \in m .. n : j = n \/ j \in m .. n - 1
        OBVIOUS
      <4> QED BY <3>3, <4>1, <4>2 DEF Opened
    <3> QED BY <3>1, <3>2, <3>3
  <2>4. \A k \in m .. (n + 1) - 1 : k = n \/ k \in m .. n - 1
    OBVIOUS
  <2>5. Encloses(language, lines, a.symbols, a.callable[1], m, n + 1)
    <3>1. m \in 1 .. n + 1
      OBVIOUS
    <3> QED BY <2>1, <2>3, <2>4, <3>1 DEF Encloses
  <2> QED BY <2>2, <2>5
<1>4. Entered(language, lines, a, n) => Inside(language, lines, b, n)
  <2>1. callable # <<>> => callable = a.callable
    OBVIOUS
  <2> HIDE DEF b, callable, depth
  <2> QED BY <1>2, <1>3, <2>1 DEF Inside
<1> QED BY <1>2, <1>4

\* the edges of the calls of line n
LEMMA CallsType ==
  ASSUME NEW F, NEW language, NEW lines \in Seq(Lines), NEW n \in 1 .. Len(lines),
         NEW a \in Analyses(F, 1 .. Len(lines))
  PROVE  LET b == Calls(a, lines[n], n)
         IN  /\ b \in Analyses(F, 1 .. Len(lines))
             /\ Entered(language, lines, a, n)
                  /\ EdgesEnclosed(language, lines, a) =>
                  Inside(language, lines, b, n) /\ EdgesEnclosed(language, lines, b)
<1> DEFINE L == 1 .. Len(lines)
           line == lines[n]
           b == Calls(a, line, n)
           caller == a.callable[1]
           called == Only(Distinct(line.calls),
                          {c \in ToSet(line.calls) :
                             c.callee \notin IgnoredNames \cup {caller.name}})
           new == [i \in DOMAIN called |->
                     Edge(caller, called[i],
                          FieldType(a, called[i].receiver), n)]
           with == [a EXCEPT !.edges = a.edges \o new]
<1>1. CASE a.callable = <<>>
  <2>1. b = a
    BY <1>1 DEF Calls
  <2> QED BY <1>1, <2>1 DEF Inside
<1>2. CASE a.callable # <<>>
  <2>1. /\ a.callable \in Seq(Callables) /\ a.edges \in Seq(Edges(F, L))
        /\ line.calls \in Seq(CallRefs)
    BY LineTypes DEF Analyses
  <2>2. caller \in Callables
    BY <1>2, <2>1
  <2>3. called \in Seq(CallRefs)
    <3>1. Distinct(line.calls) \in Seq(CallRefs)
      BY <2>1, DistinctType
    <3> QED BY <3>1, OnlyType
  <2> HIDE DEF called, caller
  <2>4. ASSUME NEW i \in DOMAIN called
        PROVE  new[i] \in Edges(F, L) /\ new[i].caller = caller
               /\ new[i].line = n
    <3>1. called[i] \in CallRefs
      BY <2>3
    <3>2. FieldType(a, called[i].receiver) \in Names
      BY FieldTypeType
    <3>3. /\ called[i].receiver \in Names /\ called[i].callee \in Names
          /\ called[i].qualifier \in Seq(Names)
      BY <3>1 DEF CallRefs
    <3>4. <<>> \in Seq(Targets(F)) /\ None \in Hows
      BY DEF Hows
    <3> DEFINE type == FieldType(a, called[i].receiver)
               e == Edge(caller, called[i], type, n)
    <3>5. new[i] = e
      OBVIOUS
    <3> HIDE DEF type, new
    <3>6. e \in Edges(F, L) /\ e.caller = caller /\ e.line = n
      BY <2>2, <3>2, <3>3, <3>4 DEF Edge, Edges, type
    <3> QED BY <3>5, <3>6
  <2>5. new \in Seq(Edges(F, L))
    <3>1. DOMAIN called = 1 .. Len(called) /\ Len(called) \in Nat
      BY <2>3
    <3>2. new \in [1 .. Len(called) -> Edges(F, L)]
      <4> HIDE DEF L
      <4> QED BY <2>4, <3>1
    <3> HIDE DEF new, L
    <3> QED BY <3>1, <3>2
  <2>6. /\ with \in Analyses(F, L) /\ with.edges = a.edges \o new
        /\ with.callable = a.callable /\ with.symbols = a.symbols
        /\ with.depth = a.depth
    <3> DEFINE edges == a.edges \o new
    <3>1. edges \in Seq(Edges(F, L))
      <4> HIDE DEF new, L
      <4> QED BY <2>1, <2>5
    <3>2. a \in Analyses(F, L)
      OBVIOUS
    <3> HIDE DEF edges, L
    <3> QED BY <3>1, <3>2 DEF Analyses, edges
  <2>7. b = Leave(with, line)
    BY <1>2 DEF Calls, called, caller
  <2>8. /\ b \in Analyses(F, L)
        /\ b.edges = with.edges /\ b.symbols = with.symbols
        /\ Entered(language, lines, with, n) => Inside(language, lines, b, n)
    <3> HIDE DEF with, b
    <3>1. with \in Analyses(F, 1 .. Len(lines)) /\ with.callable # <<>>
      BY <1>2, <2>6
    <3>2. LET r == Leave(with, lines[n])
          IN  /\ r \in Analyses(F, 1 .. Len(lines))
              /\ r.edges = with.edges /\ r.symbols = with.symbols
              /\ Entered(language, lines, with, n) => Inside(language, lines, r, n)
      BY <3>1, LeaveType
    <3> QED BY <2>7, <3>2
  <2>9. Entered(language, lines, a, n) => Entered(language, lines, with, n)
    <3> HIDE DEF with
    <3> QED BY <2>6 DEF Entered
  <2>10. ASSUME Entered(language, lines, a, n), EdgesEnclosed(language, lines, a)
         PROVE  EdgesEnclosed(language, lines, b)
    <3>1. b.edges = a.edges \o new /\ b.symbols = a.symbols
      BY <2>6, <2>8
    <3>2. ASSUME NEW e \in ToSet(b.edges)
          PROVE  e \in ToSet(a.edges) \/ (e.caller = caller /\ e.line = n)
      <4>1. PICK i \in DOMAIN (a.edges \o new) : e = (a.edges \o new)[i]
        BY <3>1 DEF ToSet
      <4>2. /\ i \in 1 .. Len(a.edges) + Len(new)
            /\ Len(a.edges) \in Nat /\ Len(new) \in Nat
        <5> HIDE DEF new
        <5> QED BY <2>1, <2>5, <4>1
      <4>3. CASE i <= Len(a.edges)
        <5>1. e = a.edges[i] /\ i \in DOMAIN a.edges
          <6> HIDE DEF new
          <6> QED BY <2>1, <2>5, <4>1, <4>2, <4>3
        <5> QED BY <5>1 DEF ToSet
      <4>4. CASE i > Len(a.edges)
        <5>1. /\ e = new[i - Len(a.edges)]
              /\ i - Len(a.edges) \in 1 .. Len(new)
          <6> HIDE DEF new
          <6> QED BY <2>1, <2>5, <4>1, <4>2, <4>4
        <5>2. DOMAIN called = 1 .. Len(new)
          <6>1. DOMAIN new = DOMAIN called
            OBVIOUS
          <6> HIDE DEF new
          <6> QED BY <2>5, <6>1
        <5> HIDE DEF new
        <5> QED BY <2>4, <5>1, <5>2
      <4> QED BY <4>2, <4>3, <4>4
    <3>3. PICK m \in 1 .. n : Encloses(language, lines, a.symbols, caller, m, n)
      BY <1>2, <2>10 DEF Entered, caller
    <3> HIDE DEF b
    <3> QED BY <2>10, <3>1, <3>2, <3>3 DEF EdgesEnclosed
  <2> HIDE DEF b, with, L
  <2> QED BY <2>8, <2>9, <2>10 DEF b, L
<1> QED BY <1>1, <1>2

\* nothing that encloses is lost when declarations are added
LEMMA EnteredMore ==
  ASSUME NEW language, NEW lines, NEW a, NEW b, NEW n,
         ToSet(a.symbols) \subseteq ToSet(b.symbols), b.edges = a.edges
  PROVE  /\ EdgesEnclosed(language, lines, a) => EdgesEnclosed(language, lines, b)
         /\ b.callable = a.callable /\ b.depth = a.depth
              /\ Entered(language, lines, a, n)
              => Entered(language, lines, b, n)
<1>1. \A c, m, k : Encloses(language, lines, a.symbols, c, m, k)
                     => Encloses(language, lines, b.symbols, c, m, k)
  BY EnclosesMore
<1> QED BY <1>1 DEF EdgesEnclosed, Entered

LEMMA Entering ==
  ASSUME NEW language, NEW lines, NEW a, NEW n \in Nat \ {0},
         Inside(language, lines, a, n - 1)
  PROVE  Entered(language, lines, a, n)
<1>1. CASE a.callable = <<>>
  BY <1>1 DEF Entered
<1>2. CASE a.callable # <<>>
  <2>1. PICK m \in 1 .. n - 1 :
           /\ Encloses(language, lines, a.symbols, a.callable[1], m, (n - 1) + 1)
           /\ a.depth = Braces(lines, m, n - 1)
    BY <1>2 DEF Inside
  <2>2. (n - 1) + 1 = n /\ m \in 1 .. n
    OBVIOUS
  <2> QED BY <2>1, <2>2 DEF Entered
<1> QED BY <1>1, <1>2

LEMMA JavaLineType ==
  ASSUME NEW F, NEW language, NEW lines \in Seq(Lines), NEW n \in 1 .. Len(lines),
         NEW a \in Analyses(F, 1 .. Len(lines))
  PROVE  LET b == JavaLine(a, lines[n], n)
         IN  /\ b \in Analyses(F, 1 .. Len(lines))
             /\ Inside(language, lines, a, n - 1)
                  /\ EdgesEnclosed(language, lines, a) =>
                  Inside(language, lines, b, n) /\ EdgesEnclosed(language, lines, b)
<1> DEFINE L == 1 .. Len(lines)
           line == lines[n]
           c == DeclareClass(a, line, n)
           d == DeclareField(c, line)
           owner == IF d.class = None THEN <<>> ELSE <<d.class>>
           e == IF line.header \in IgnoredNames THEN d
                ELSE DeclareCallable(d, line, n, owner, "method")
           b == Calls(e, line, n)
<1>0. b = JavaLine(a, line, n)
  BY DEF JavaLine
<1>1. line \in Lines
  OBVIOUS
<1>2. /\ c \in Analyses(F, L) /\ c.callable = a.callable /\ c.depth = a.depth
      /\ c.edges = a.edges /\ ToSet(a.symbols) \subseteq ToSet(c.symbols)
  <2>1. n \in L /\ a \in Analyses(F, L)
    OBVIOUS
  <2> DEFINE g == DeclareClass(a, line, n)
  <2> HIDE DEF L
  <2> HIDE DEF line
  <2>2. LET r == DeclareClass(a, line, n)
        IN  /\ r \in Analyses(F, L)
            /\ r.callable = a.callable /\ r.depth = a.depth
            /\ r.edges = a.edges
            /\ ToSet(a.symbols) \subseteq ToSet(r.symbols)
    BY <1>1, <2>1, DeclareClassType
  <2> QED BY <2>2
<1>3. /\ d \in Analyses(F, L) /\ d.callable = c.callable /\ d.depth = c.depth
      /\ d.edges = c.edges /\ d.symbols = c.symbols
  <2> HIDE DEF c, L, line
  <2>1. LET r == DeclareField(c, line)
        IN  /\ r \in Analyses(F, L)
            /\ r.callable = c.callable /\ r.depth = c.depth
            /\ r.edges = c.edges /\ r.symbols = c.symbols
    BY <1>1, <1>2, DeclareFieldType
  <2> QED BY <2>1
<1>4. Entered(language, lines, a, n) => Entered(language, lines, d, n)
  <2> HIDE DEF d, c
  <2> QED BY <1>2, <1>3, EnteredMore
<1>5. EdgesEnclosed(language, lines, a) => EdgesEnclosed(language, lines, d)
  <2> HIDE DEF d, c
  <2> QED BY <1>2, <1>3, EnteredMore
<1>6. /\ e \in Analyses(F, L)
      /\ Entered(language, lines, d, n) => Entered(language, lines, e, n)
      /\ EdgesEnclosed(language, lines, d) => EdgesEnclosed(language, lines, e)
  <2>1. owner \in Seq(Names)
    <3>1. d.class \in Names
      <4> HIDE DEF d
      <4> QED BY <1>3 DEF Analyses
    <3> HIDE DEF d
    <3> QED BY <3>1
  <2> HIDE DEF d, owner
  <2>2. CASE line.header \in IgnoredNames
    BY <1>3, <2>2
  <2>3. CASE line.header \notin IgnoredNames
    <3> DEFINE f == DeclareCallable(d, line, n, owner, "method")
    <3>1. "method" \in Kinds
      BY DEF Kinds
    <3> DEFINE kind == "method"
    <3>4. d \in Analyses(F, 1 .. Len(lines)) /\ kind \in Kinds
      BY <1>3, <3>1
    <3> HIDE DEF kind
    <3>2. /\ f \in Analyses(F, L)
          /\ f.edges = d.edges /\ ToSet(d.symbols) \subseteq ToSet(f.symbols)
          /\ Entered(language, lines, d, n) => Entered(language, lines, f, n)
      <4> DEFINE g == DeclareCallable(d, lines[n], n, owner, kind)
      <4>1. /\ g \in Analyses(F, 1 .. Len(lines))
            /\ g.edges = d.edges
            /\ ToSet(d.symbols) \subseteq ToSet(g.symbols)
            /\ /\ Entered(language, lines, d, n)
               /\ kind = "method" \/ language # "java"
               => Entered(language, lines, g, n)
        BY <2>1, <3>4, DeclareCallableType
      <4> QED BY <4>1 DEF kind
    <3> HIDE DEF f
    <3>3. EdgesEnclosed(language, lines, d) => EdgesEnclosed(language, lines, f)
      BY <3>2, EnteredMore
    <3> QED BY <2>3, <3>2, <3>3 DEF f
  <2> QED BY <2>2, <2>3
<1>7. /\ b \in Analyses(F, L)
      /\ Entered(language, lines, e, n) /\ EdgesEnclosed(language, lines, e) =>
           Inside(language, lines, b, n) /\ EdgesEnclosed(language, lines, b)
  <2> HIDE DEF e
  <2> QED BY <1>6, CallsType
<1>8. Inside(language, lines, a, n - 1) => Entered(language, lines, a, n)
  BY Entering
<1> HIDE DEF b, e, d
<1> QED BY <1>0, <1>4, <1>5, <1>6, <1>7, <1>8

LEMMA FunctionLineType ==
  ASSUME NEW F, NEW language, NEW lines \in Seq(Lines), NEW n \in 1 .. Len(lines),
         NEW a \in Analyses(F, 1 .. Len(lines))
  PROVE  LET b == FunctionLine(a, lines[n], n)
         IN  /\ b \in Analyses(F, 1 .. Len(lines))
             /\ /\ Inside(language, lines, a, n - 1)
                /\ EdgesEnclosed(language, lines, a)
                /\ language # "java"
                => Inside(language, lines, b, n)
                  /\ EdgesEnclosed(language, lines, b)
<1> DEFINE L == 1 .. Len(lines)
           line == lines[n]
           bare == [line EXCEPT !.implements = <<>>]
           c == DeclareClass(a, bare, n)
           d == [c EXCEPT !.class = None]
           e == DeclareCallable(d, line, n, <<>>, "function")
           b == Calls(e, line, n)
<1>0. b = FunctionLine(a, line, n)
  BY DEF FunctionLine
<1>1. bare \in Lines
  <2>1. line \in Lines /\ <<>> \in Seq(Names)
    OBVIOUS
  <2> HIDE DEF line
  <2> QED BY <2>1 DEF Lines
<1>2. /\ c \in Analyses(F, L) /\ c.callable = a.callable /\ c.depth = a.depth
      /\ c.edges = a.edges /\ ToSet(a.symbols) \subseteq ToSet(c.symbols)
  <2> HIDE DEF bare
  <2> QED BY <1>1, DeclareClassType
<1>3. /\ d \in Analyses(F, L) /\ d.callable = c.callable /\ d.depth = c.depth
      /\ d.edges = c.edges /\ d.symbols = c.symbols
  <2>1. None \in Names
    BY DEF Names
  <2> HIDE DEF c, L
  <2> QED BY <1>2, <2>1 DEF Analyses
<1>4. Entered(language, lines, a, n) => Entered(language, lines, d, n)
  <2> HIDE DEF d, c
  <2> QED BY <1>2, <1>3, EnteredMore
<1>5. EdgesEnclosed(language, lines, a) => EdgesEnclosed(language, lines, d)
  <2> HIDE DEF d, c
  <2> QED BY <1>2, <1>3, EnteredMore
<1>6. /\ e \in Analyses(F, L)
      /\ Entered(language, lines, d, n) /\ language # "java"
             => Entered(language, lines, e, n)
      /\ EdgesEnclosed(language, lines, d) => EdgesEnclosed(language, lines, e)
  <2>1. <<>> \in Seq(Names) /\ "function" \in Kinds
    BY DEF Kinds
  <2> DEFINE kind == "function"
             owner == <<>>
  <2>4. /\ d \in Analyses(F, 1 .. Len(lines))
        /\ owner \in Seq(Names) /\ kind \in Kinds
    BY <1>3, <2>1
  <2> HIDE DEF d, kind, owner
  <2>2. /\ e \in Analyses(F, L)
        /\ e.edges = d.edges /\ ToSet(d.symbols) \subseteq ToSet(e.symbols)
        /\ Entered(language, lines, d, n) /\ language # "java"
             => Entered(language, lines, e, n)
    <3> DEFINE g == DeclareCallable(d, lines[n], n, owner, kind)
    <3>1. /\ g \in Analyses(F, 1 .. Len(lines))
          /\ g.edges = d.edges
          /\ ToSet(d.symbols) \subseteq ToSet(g.symbols)
          /\ /\ Entered(language, lines, d, n)
             /\ kind = "method" \/ language # "java"
             => Entered(language, lines, g, n)
      BY <2>4, DeclareCallableType
    <3> QED BY <3>1 DEF kind, owner
  <2> HIDE DEF e
  <2>3. EdgesEnclosed(language, lines, d) => EdgesEnclosed(language, lines, e)
    BY <2>2, EnteredMore
  <2> QED BY <2>2, <2>3
<1>7. /\ b \in Analyses(F, L)
      /\ Entered(language, lines, e, n) /\ EdgesEnclosed(language, lines, e) =>
           Inside(language, lines, b, n) /\ EdgesEnclosed(language, lines, b)
  <2> HIDE DEF e
  <2> QED BY <1>6, CallsType
<1>8. Inside(language, lines, a, n - 1) => Entered(language, lines, a, n)
  BY Entering
<1> HIDE DEF b, e, d
<1> QED BY <1>0, <1>4, <1>5, <1>6, <1>7, <1>8

\* a list made of one list per place
LEMMA FlattenEach ==
  ASSUME NEW U, NEW n \in Nat, NEW ss,
         DOMAIN ss = 1 .. n, ss = [i \in 1 .. n |-> ss[i]],
         \A i \in 1 .. n : ss[i] \in Seq(U)
  PROVE  FlattenSeq(ss) \in Seq(U)
<1>1. ss \in [1 .. n -> Seq(U)]
  OBVIOUS
<1>2. ss \in Seq(Seq(U))
  BY <1>1
<1> QED BY <1>2, FlattenType

\* the edges of calls on line n and around it with the same caller
LEMMA EdgesType ==
  ASSUME NEW F, NEW L, NEW n \in Int, NEW caller \in Callables,
         NEW calls \in Seq(CallRefs),
         \A c \in ToSet(calls) : n + c.below \in L
  PROVE  [i \in DOMAIN calls |-> Edge(caller, calls[i], None,
                                      n + calls[i].below)]
           \in Seq(Edges(F, L))
<1> DEFINE edge(i) == Edge(caller, calls[i], None, n + calls[i].below)
           new == [i \in DOMAIN calls |-> edge(i)]
<1>1. ASSUME NEW i \in DOMAIN calls
      PROVE  edge(i) \in Edges(F, L)
  <2>1. calls[i] \in CallRefs /\ calls[i] \in ToSet(calls)
    BY DEF ToSet
  <2>2. /\ calls[i].receiver \in Names /\ calls[i].callee \in Names
        /\ calls[i].qualifier \in Seq(Names)
    BY <2>1 DEF CallRefs
  <2>3. /\ <<>> \in Seq(Targets(F)) /\ None \in Hows /\ None \in Names
        /\ 0 \in Nat
    BY DEF Hows, Names
  <2> DEFINE line == n + calls[i].below
  <2>4. line \in L
    BY <2>1
  <2> HIDE DEF line
  <2>5. Edge(caller, calls[i], None, line) \in Edges(F, L)
    BY <2>2, <2>3, <2>4 DEF Edge, Edges
  <2> QED BY <2>5 DEF line
<1>2. DOMAIN calls = 1 .. Len(calls) /\ Len(calls) \in Nat
  OBVIOUS
<1> HIDE DEF edge
<1>3. new \in [1 .. Len(calls) -> Edges(F, L)]
  BY <1>1, <1>2
<1> HIDE DEF new
<1>4. new \in Seq(Edges(F, L))
  BY <1>2, <1>3
<1> QED BY <1>4 DEF new, edge

LEMMA CallsInType ==
  ASSUME NEW F, NEW L, NEW stack \in Seq(Declarations(F, L)),
         NEW calls \in Seq(CallRefs), NEW n \in Int,
         \A c \in ToSet(calls) : n + c.below \in L
  PROVE  CallsIn(stack, calls, n) \in Seq(Edges(F, L))
<1> DEFINE inside == {i \in DOMAIN stack : stack[i].kind = "function"}
           m == Max(inside)
           owner == [i \in 1 .. m - 1 |-> stack[i].name]
           caller == Callable(owner, stack[m].name)
           new == [i \in DOMAIN calls |-> Edge(caller, calls[i], None,
                                               n + calls[i].below)]
<1>1. CallsIn(stack, calls, n) = IF inside = {} THEN <<>> ELSE new
  BY DEF CallsIn
<1>2. ASSUME inside # {}
      PROVE  new \in Seq(Edges(F, L))
  <2>1. m \in DOMAIN stack
    <3>1. Len(stack) \in Nat /\ inside \in SUBSET (0 .. Len(stack))
      OBVIOUS
    <3>2. m \in inside
      <4> HIDE DEF inside
      <4> QED BY <1>2, <3>1, MaxIs
    <3> HIDE DEF m
    <3> QED BY <3>2
  <2> HIDE DEF m, inside
  <2>2. m \in Nat \ {0} /\ \A i \in 1 .. m : i \in DOMAIN stack
    BY <2>1
  <2>3. \A i \in DOMAIN stack : stack[i].name \in Names
    <3>1. \A i \in DOMAIN stack : stack[i] \in Declarations(F, L)
      OBVIOUS
    <3> QED BY <3>1 DEF Declarations
  <2>4. owner \in Seq(Names)
    <3>1. owner \in [1 .. m - 1 -> Names]
      BY <2>2, <2>3
    <3>2. m - 1 \in Nat
      BY <2>2
    <3> HIDE DEF owner
    <3> QED BY <3>1, <3>2
  <2> HIDE DEF owner
  <2>5. caller \in Callables
    BY <2>1, <2>3, <2>4 DEF Callable, Callables
  <2> HIDE DEF caller
  <2> QED BY <2>5, EdgesType
<1>3. <<>> \in Seq(Edges(F, L))
  OBVIOUS
<1> HIDE DEF new, inside
<1> QED BY <1>1, <1>2, <1>3

LEMMA CloseDeclarationsType ==
  ASSUME NEW F, NEW L, NEW a \in Analyses(F, L), NEW indent
  PROVE  LET b == CloseDeclarations(a, indent)
         IN  /\ b \in Analyses(F, L)
             /\ b.stack \in Seq(Declarations(F, L))
             /\ b.symbols \in Seq(Symbols(L))
             /\ b.edges \in Seq(Edges(F, L))
<1> DEFINE deeper == {d \in ToSet(a.stack) : d.indent >= indent}
           closed == Only(a.stack, deeper)
           open == Only(a.stack, ToSet(a.stack) \ deeper)
           after == [i \in DOMAIN closed |->
                       closed[Len(closed) + 1 - i].after]
           edges == a.edges \o FlattenSeq(after)
           b == [a EXCEPT !.stack = open, !.edges = edges]
<1>1. CloseDeclarations(a, indent) = b
  BY DEF CloseDeclarations, Analyses
<1>2. /\ a.stack \in Seq(Declarations(F, L)) /\ a.symbols \in Seq(Symbols(L))
      /\ a.edges \in Seq(Edges(F, L))
  BY DEF Analyses
<1>3. open \in Seq(Declarations(F, L)) /\ closed \in Seq(Declarations(F, L))
  <2> HIDE DEF deeper
  <2> QED BY <1>2, OnlyType
<1> HIDE DEF open, closed
<1>4. FlattenSeq(after) \in Seq(Edges(F, L))
  <2>1. DOMAIN closed = 1 .. Len(closed) /\ Len(closed) \in Nat
    BY <1>3
  <2>2. ASSUME NEW i \in 1 .. Len(closed)
        PROVE  after[i] \in Seq(Edges(F, L))
    <3> DEFINE k == Len(closed) + 1 - i
    <3>1. k \in DOMAIN closed /\ after[i] = closed[k].after
      BY <2>1
    <3> HIDE DEF k, after
    <3>2. closed[k] \in Declarations(F, L)
      BY <1>3, <3>1
    <3> QED BY <3>1, <3>2 DEF Declarations
  <2>3. /\ DOMAIN after = 1 .. Len(closed)
        /\ after = [i \in 1 .. Len(closed) |-> after[i]]
    BY <2>1
  <2> HIDE DEF after
  <2> QED BY <2>1, <2>2, <2>3, FlattenEach
<1> HIDE DEF after
<1>5. edges \in Seq(Edges(F, L))
  BY <1>2, <1>4
<1> HIDE DEF edges
<1>6. /\ b \in Analyses(F, L) /\ b.stack = open /\ b.edges = edges
      /\ b.symbols = a.symbols
  BY <1>2, <1>3, <1>5 DEF Analyses
<1> QED BY <1>1, <1>2, <1>3, <1>5, <1>6

LEMMA PythonLineType ==
  ASSUME NEW F, NEW L, NEW a \in Analyses(F, L), NEW line \in Lines,
         NEW n \in L, n \in Int,
         \A c \in ToSet(line.calls) \cup ToSet(line.after) : n + c.below \in L
  PROVE  PythonLine(a, line, n) \in Analyses(F, L)
<1> DEFINE outer == CloseDeclarations(a, line.indent)
           open  == outer.stack
           owner == [i \in DOMAIN open |-> open[i].name]
           name  == IF line.class # None THEN line.class ELSE line.header
           kind  == IF line.class # None THEN "class" ELSE "function"
           declared(after) == [name |-> name, indent |-> line.indent,
                               kind |-> kind, after |-> after]
           inner == IF name = None THEN open ELSE Append(open, declared(<<>>))
           after == CallsIn(inner, line.after, n)
           new   == CallsIn(inner, line.calls, n)
           stack == IF name = None THEN open ELSE Append(open, declared(after))
           symbol  == Symbol(owner, name, kind, n)
           symbols == IF name = None THEN outer.symbols
                      ELSE Append(outer.symbols, symbol)
           edges == outer.edges \o new
<1>1. /\ outer \in Analyses(F, L) /\ open \in Seq(Declarations(F, L))
      /\ outer.symbols \in Seq(Symbols(L)) /\ outer.edges \in Seq(Edges(F, L))
  BY CloseDeclarationsType
<1>2. PythonLine(a, line, n) =
        [outer EXCEPT !.stack = stack, !.symbols = symbols, !.edges = edges]
  <2>1. PythonLine(a, line, n) =
          [outer EXCEPT
             !.stack   = IF name = None THEN @ ELSE Append(@, declared(after)),
             !.symbols = IF name = None THEN @
                         ELSE Append(@, Symbol(owner, name, kind, n)),
             !.edges   = @ \o CallsIn(inner, line.calls, n)]
    BY DEF PythonLine
  <2> HIDE DEF outer
  <2> QED BY <1>1, <2>1 DEF Analyses
<1>3. /\ name \in Names /\ kind \in Kinds /\ line.indent \in Nat
      /\ line.calls \in Seq(CallRefs) /\ line.after \in Seq(CallRefs)
  BY LineTypes DEF Kinds
<1> HIDE DEF outer, name, kind
<1>4. \A t \in Seq(Edges(F, L)) : declared(t) \in Declarations(F, L)
  BY <1>3 DEF Declarations
<1> HIDE DEF declared
<1>5. inner \in Seq(Declarations(F, L))
  <2>1. declared(<<>>) \in Declarations(F, L)
    <3>1. <<>> \in Seq(Edges(F, L))
      OBVIOUS
    <3> QED BY <1>4, <3>1
  <2> HIDE DEF open
  <2> QED BY <1>1, <2>1
<1> HIDE DEF inner
<1>6. after \in Seq(Edges(F, L)) /\ new \in Seq(Edges(F, L))
  BY <1>3, <1>5, CallsInType
<1> HIDE DEF after, new
<1>7. stack \in Seq(Declarations(F, L))
  <2>1. declared(after) \in Declarations(F, L)
    BY <1>4, <1>6
  <2> HIDE DEF open
  <2> QED BY <1>1, <2>1
<1>8. symbols \in Seq(Symbols(L))
  <2>1. owner \in Seq(Names)
    <3> HIDE DEF open
    <3>1. \A i \in DOMAIN open : open[i].name \in Names
      <4>1. \A i \in DOMAIN open : open[i] \in Declarations(F, L)
        BY <1>1
      <4> QED BY <4>1 DEF Declarations
    <3>2. DOMAIN open = 1 .. Len(open) /\ Len(open) \in Nat
      BY <1>1
    <3>3. owner \in [1 .. Len(open) -> Names]
      BY <3>1, <3>2
    <3> HIDE DEF owner
    <3> QED BY <3>2, <3>3
  <2> HIDE DEF owner
  <2>2. symbol \in Symbols(L)
    BY <1>3, <2>1 DEF Symbol, Symbols
  <2> HIDE DEF symbol
  <2> QED BY <1>1, <2>2
<1>9. edges \in Seq(Edges(F, L))
  BY <1>1, <1>6
<1> HIDE DEF stack, symbols, edges
<1>10. [outer EXCEPT !.stack = stack, !.symbols = symbols, !.edges = edges]
        \in Analyses(F, L)
  BY <1>1, <1>7, <1>8, <1>9 DEF Analyses
<1> QED BY <1>2, <1>10

Braced == {"java", "go"}

LEMMA AnalyzeLineType ==
  ASSUME NEW F, NEW language, NEW lines \in Seq(Lines), CallsAreInFile(lines),
         NEW n \in 1 .. Len(lines), NEW a \in Analyses(F, 1 .. Len(lines))
  PROVE  LET b == AnalyzeLine(language, a, lines[n], n)
         IN  /\ b \in Analyses(F, 1 .. Len(lines))
             /\ /\ language \in Braced
                /\ Inside(language, lines, a, n - 1)
                     /\ EdgesEnclosed(language, lines, a)
                => Inside(language, lines, b, n)
                  /\ EdgesEnclosed(language, lines, b)
<1> DEFINE b == AnalyzeLine(language, a, lines[n], n)
<1>1. CASE language = "java"
  <2>1. b = JavaLine(a, lines[n], n)
    BY <1>1 DEF AnalyzeLine
  <2>2. LET r == JavaLine(a, lines[n], n)
        IN  /\ r \in Analyses(F, 1 .. Len(lines))
            /\ Inside(language, lines, a, n - 1)
                 /\ EdgesEnclosed(language, lines, a) =>
                 Inside(language, lines, r, n) /\ EdgesEnclosed(language, lines, r)
    BY JavaLineType
  <2> QED BY <2>1, <2>2
<1>2. CASE language = "python"
  <2>1. b = PythonLine(a, lines[n], n)
    BY <1>2 DEF AnalyzeLine
  <2>2. lines[n] \in Lines
    OBVIOUS
  <2>3. \A c \in ToSet(lines[n].calls) \cup ToSet(lines[n].after) :
           n + c.below \in 1 .. Len(lines)
    BY DEF CallsAreInFile
  <2>4. PythonLine(a, lines[n], n) \in Analyses(F, 1 .. Len(lines))
    BY <2>2, <2>3, PythonLineType
  <2> QED BY <1>2, <2>1, <2>4 DEF Braced
<1>3. CASE language \in {"go", "javascript", "typescript"}
  <2>1. b = FunctionLine(a, lines[n], n)
    BY <1>3 DEF AnalyzeLine
  <2>2. LET r == FunctionLine(a, lines[n], n)
        IN  /\ r \in Analyses(F, 1 .. Len(lines))
            /\ /\ Inside(language, lines, a, n - 1)
                    /\ EdgesEnclosed(language, lines, a)
               /\ language # "java"
               => Inside(language, lines, r, n) /\ EdgesEnclosed(language, lines, r)
    BY FunctionLineType
  <2> QED BY <1>3, <2>1, <2>2
<1>4. CASE language \notin {"java", "python", "go", "javascript", "typescript"}
  <2>1. b = a
    BY <1>4 DEF AnalyzeLine
  <2> QED BY <1>4, <2>1 DEF Braced
<1> QED BY <1>1, <1>2, <1>3, <1>4

LEMMA AnalyzeType ==
  ASSUME NEW F, NEW language, NEW lines \in Seq(Lines), CallsAreInFile(lines)
  PROVE  /\ Analyze(language, lines) \in Analyses(F, 1 .. Len(lines))
         /\ language \in Braced =>
              EdgesEnclosed(language, lines, Analyze(language, lines))
<1> DEFINE N == Len(lines)
           T == Analyses(F, 1 .. N)
           step(a, n) == AnalyzeLine(language, a, lines[n], n)
           Loop(f) == [n \in 0 .. N |-> IF n = 0 THEN Start
                                        ELSE step(f[n - 1], n)]
           body == [n \in 1 .. N |-> [a \in T |-> step(a, n)]]
           after == CHOOSE g : g = Loop(g)
<1>1. N \in Nat /\ Start \in T
  BY StartType
<1>2. \A n \in 1 .. N : \A a \in T : step(a, n) \in T
  BY AnalyzeLineType
<1>3. after = Loop(after)
  <2>1. body \in Bodies(N, T)
    <3> HIDE DEF N, T, step
    <3> QED BY <1>2 DEF Bodies
  <2>2. PICK f \in Values(N, T) : Loops(f, N, Start, body)
    <3> HIDE DEF N, T, body
    <3> QED BY <1>1, <2>1, RecursionExists
  <2>3. f \in [0 .. N -> T] /\ f[0] = Start
    BY <2>2 DEF Values, Loops
  <2>4. ASSUME NEW n \in 1 .. N
        PROVE  f[n] = step(f[n - 1], n)
    <3>1. n - 1 \in 0 .. N
      BY <1>1
    <3>2. f[n - 1] \in T
      BY <2>3, <3>1
    <3>3. f[n] = body[n][f[n - 1]]
      BY <2>2 DEF Loops
    <3> HIDE DEF N, T, step
    <3> QED BY <3>2, <3>3
  <2>5. f = Loop(f)
    <3>1. \A n \in 0 .. N : f[n] = IF n = 0 THEN Start ELSE step(f[n - 1], n)
      <4> HIDE DEF step, T
      <4> QED BY <1>1, <2>3, <2>4
    <3> HIDE DEF N, step
    <3> QED BY <2>3, <3>1
  <2> HIDE DEF Loop
  <2> QED BY <2>5
<1>4. Analyze(language, lines) =
        IF language = "python" THEN CloseDeclarations(after[N], 0) ELSE after[N]
  BY DEF Analyze
<1> HIDE DEF after
<1>5. after[0] = Start /\ \A n \in 1 .. N : after[n] = step(after[n - 1], n)
  <2>1. \A n \in 0 .. N : after[n] = IF n = 0 THEN Start
                                     ELSE step(after[n - 1], n)
    <3> HIDE DEF N, step
    <3> QED BY <1>3
  <2> HIDE DEF step
  <2> QED BY <1>1, <2>1
<1> DEFINE Good(a, n) == /\ a \in T
                         /\ language \in Braced =>
                              Inside(language, lines, a, n)
                                /\ EdgesEnclosed(language, lines, a)
           G == {n \in 0 .. N : Good(after[n], n)}
<1>6. 0 \in G
  <2>1. Start.callable = <<>> /\ Start.edges = <<>>
    BY DEF Start
  <2>2. Inside(language, lines, Start, 0)
    BY <2>1 DEF Inside
  <2>3. EdgesEnclosed(language, lines, Start)
    BY <2>1 DEF EdgesEnclosed, ToSet
  <2> QED BY <1>1, <1>5, <2>2, <2>3
<1>7. ASSUME NEW n \in 1 .. N, n - 1 \in G
      PROVE  n \in G
  <2> DEFINE a == after[n - 1]
  <2>1. Good(a, n - 1)
    BY <1>7
  <2>2. after[n] = step(a, n)
    BY <1>5
  <2> HIDE DEF a
  <2>3. n \in 1 .. Len(lines) /\ a \in Analyses(F, 1 .. Len(lines))
    BY <2>1
  <2>4. LET b == AnalyzeLine(language, a, lines[n], n)
        IN  /\ b \in Analyses(F, 1 .. Len(lines))
            /\ /\ language \in Braced
               /\ Inside(language, lines, a, n - 1)
                    /\ EdgesEnclosed(language, lines, a)
               => Inside(language, lines, b, n) /\ EdgesEnclosed(language, lines, b)
    BY <2>3, AnalyzeLineType
  <2>5. Good(after[n], n)
    BY <2>1, <2>2, <2>4
  <2>6. n \in 0 .. N
    BY <1>1
  <2> HIDE DEF Good
  <2> QED BY <2>5, <2>6
<1>8. N \in G
  <2>1. N \in 0 .. N
    BY <1>1
  <2> HIDE DEF G, N
  <2> QED BY <1>1, <1>6, <1>7, <2>1, UpTo
<1>9. Good(after[N], N)
  <2> HIDE DEF Good
  <2> QED BY <1>8
<1>10. CASE language = "python"
  <2>1. CloseDeclarations(after[N], 0) \in T
    BY <1>9, CloseDeclarationsType
  <2> QED BY <1>4, <1>10, <2>1 DEF Braced
<1>11. CASE language # "python"
  BY <1>4, <1>9, <1>11
<1> QED BY <1>10, <1>11

-----------------------------------------------------------------------------
(* The range of lines quoted for a finding.                                *)

LEMMA MergeLineNumbersType ==
  ASSUME NEW L, NEW groups \in Seq(Seq(L))
  PROVE  MergeLineNumbers(groups) \in Seq(L)
BY FlattenType, OnlyType, DistinctType DEF MergeLineNumbers

LEMMA BoundedRangeIs ==
  ASSUME NEW first \in Int, NEW last \in Int, NEW total \in Nat \ {0}
  PROVE  LET r == BoundedRange(first, last, total)
         IN  /\ r \in Nat \X Nat /\ r[1] \in 1 .. total /\ r[2] \in 1 .. total
             /\ r[1] <= r[2] /\ r[2] - r[1] < MaxExcerptLines
             /\ \A n \in 1 .. total :
                   /\ first <= n /\ n <= last /\ n - first < MaxExcerptLines
                   => Within(r, n)
<1> DEFINE start == MaxOf(1, MinOf(first, total))
           end   == MaxOf(start, MinOf(last, total))
           stop  == IF end - start < MaxExcerptLines THEN end
                    ELSE MinOf(total, start + MaxExcerptLines - 1)
<1>1. BoundedRange(first, last, total) = <<start, stop>>
  BY DEF BoundedRange
<1>2. /\ start \in 1 .. total /\ stop \in 1 .. total
      /\ start <= stop /\ stop - start < MaxExcerptLines
      /\ \A n \in 1 .. total :
            /\ first <= n /\ n <= last /\ n - first < MaxExcerptLines
            => start <= n /\ n <= stop
  BY LimitsAssumption DEF MaxOf, MinOf
<1> HIDE DEF start, stop
<1>3. <<start, stop>> \in Nat \X Nat
  BY <1>2
<1> QED BY <1>1, <1>2, <1>3 DEF Within

LEMMA ScopeRangeType ==
  ASSUME NEW language, NEW lines \in Seq(Lines), NEW s,
         s.line \in 1 .. Len(lines)
  PROVE  LET r == SymbolScopeRange(language, lines, s)
         IN  r[1] = s.line /\ r[2] \in Int
<1> DEFINE from == s.line
<1>1. Len(lines) \in Nat /\ from \in Nat
  OBVIOUS
<1>2. MinOf(Len(lines), from + MaxExcerptLines - 1) \in Int
  <2> HIDE DEF from
  <2> QED BY <1>1, LimitsAssumption DEF MinOf
<1>3. \A S \in SUBSET Nat : S # {} => Min(S) \in Int /\ Min(S) - 1 \in Int
  <2>1. \A S \in SUBSET Nat : S # {} => Min(S) \in Nat
    BY MinIs
  <2> QED BY <2>1
<1>4. CASE language = "python"
  <2> DEFINE after == {n \in from + 1 .. Len(lines) :
                         /\ ~lines[n].low
                         /\ lines[n].indent <= lines[from].indent
                         /\ lines[n].class # None \/ lines[n].header # None}
  <2>1. after \in SUBSET Nat
    BY <1>1
  <2>2. SymbolScopeRange(language, lines, s) =
          <<from, IF after # {} THEN Min(after) - 1
                  ELSE MinOf(Len(lines), from + MaxExcerptLines - 1)>>
    BY <1>4 DEF SymbolScopeRange, PythonScopeRange
  <2> HIDE DEF after, from
  <2>3. (IF after # {} THEN Min(after) - 1
         ELSE MinOf(Len(lines), from + MaxExcerptLines - 1)) \in Int
    BY <1>2, <1>3, <2>1
  <2> QED BY <2>2, <2>3 DEF from
<1>5. CASE language # "python"
  <2>1. Balanced(lines, from) \in SUBSET Nat
    BY <1>1 DEF Balanced
  <2>2. SymbolScopeRange(language, lines, s) =
          <<from, IF Balanced(lines, from) # {} THEN Min(Balanced(lines, from))
                  ELSE MinOf(Len(lines), from + MaxExcerptLines - 1)>>
    BY <1>5 DEF SymbolScopeRange, BracedScopeRange
  <2> HIDE DEF from
  <2>3. (IF Balanced(lines, from) # {} THEN Min(Balanced(lines, from))
         ELSE MinOf(Len(lines), from + MaxExcerptLines - 1)) \in Int
    BY <1>2, <1>3, <2>1
  <2> QED BY <2>2, <2>3 DEF from
<1> QED BY <1>4, <1>5

\* the range is one of a file of N lines, and what it is quoted for is in it
Shows(range, lines, primary, N) ==
    /\ range \in Nat \X Nat
    /\ range # <<0, 0>> =>
          /\ 1 <= range[1] /\ range[1] <= range[2]
          /\ range[2] <= N
          /\ range[2] - range[1] < MaxExcerptLines
          /\ \/ \E n \in ToSet(lines) : Within(range, n)
             \/ primary # <<>> /\ Within(range, primary[1].line)

LEMMA BoundedRangeShows ==
  ASSUME NEW first \in Int, NEW last \in Int, NEW total \in Nat \ {0},
         NEW matches, NEW primary,
         NEW n \in 1 .. total, first <= n, n <= last, n - first < MaxExcerptLines,
         n \in ToSet(matches) \/ (primary # <<>> /\ n = primary[1].line)
  PROVE  Shows(BoundedRange(first, last, total), matches, primary, total)
<1> DEFINE r == BoundedRange(first, last, total)
<1>1. /\ r \in Nat \X Nat /\ r[1] \in 1 .. total /\ r[2] \in 1 .. total
      /\ r[1] <= r[2] /\ r[2] - r[1] < MaxExcerptLines
      /\ Within(r, n)
  BY BoundedRangeIs
<1> HIDE DEF r
<1>2. Shows(r, matches, primary, total)
  BY <1>1 DEF Shows
<1> QED BY <1>2 DEF r

\* at most d lines before line x of a scope, and up to a line y after it
LEMMA Before ==
  ASSUME NEW low \in Int, NEW x \in Int, NEW d \in Nat, low <= x
  PROVE  LET n == MaxOf(low, x - d)
         IN  n \in Int /\ n <= x /\ x - n <= d /\ x - d <= n
BY DEF MaxOf

LEMMA UpToLine ==
  ASSUME NEW high \in Int, NEW x \in Int, NEW y \in Int, x <= high, x <= y
  PROVE  MinOf(high, y) \in Int /\ x <= MinOf(high, y)
BY DEF MinOf

LEMMA LineRangeShows ==
  ASSUME NEW language, NEW lines \in Seq(Lines),
         NEW matches \in Seq(1 .. Len(lines)),
         NEW primary \in Seq(Symbols(1 .. Len(lines)))
  PROVE  Shows(LineRange(language, lines, matches, primary), matches, primary,
               Len(lines))
<1> DEFINE total  == Len(lines)
           scope  == SymbolScopeRange(language, lines, primary[1])
           scoped == Only(matches, scope[1] .. scope[2])
           first  == Min(ToSet(scoped))
           last   == Max(ToSet(scoped))
           start  == MaxOf(scope[1], scoped[1] - 3)
           range  == LineRange(language, lines, matches, primary)
<1>1. total \in Nat /\ MaxExcerptLines \in Nat /\ MaxExcerptLines > 3
  BY LimitsAssumption
<1>2. ASSUME NEW s \in Seq(1 .. total), s # <<>>
      PROVE  /\ s[1] \in ToSet(s) /\ ToSet(s) \subseteq 1 .. total
             /\ Min(ToSet(s)) \in ToSet(s) /\ Max(ToSet(s)) \in ToSet(s)
             /\ Min(ToSet(s)) <= Max(ToSet(s)) /\ total \in Nat \ {0}
  <2>1. s[1] \in ToSet(s) /\ ToSet(s) \subseteq 1 .. total
    <3> DEFINE U == 1 .. total
    <3>1. s \in Seq(U)
      OBVIOUS
    <3> HIDE DEF U
    <3>2. 1 \in DOMAIN s /\ \A i \in DOMAIN s : s[i] \in U
      BY <1>2, <3>1
    <3>3. s[1] \in ToSet(s) /\ ToSet(s) \subseteq U
      BY <3>2 DEF ToSet
    <3> QED BY <3>3 DEF U
  <2>2. ToSet(s) \in SUBSET Nat /\ ToSet(s) \in SUBSET (0 .. total)
    BY <2>1
  <2>3. Min(ToSet(s)) \in ToSet(s) /\ \A x \in ToSet(s) : Min(ToSet(s)) <= x
    BY <2>1, <2>2, MinIs
  <2>4. Max(ToSet(s)) \in ToSet(s)
    <3> HIDE DEF total
    <3> QED BY <1>1, <2>1, <2>2, MaxIs
  <2>5. total \in Nat \ {0}
    BY <1>1, <2>1
  <2> QED BY <2>1, <2>3, <2>4, <2>5
<1>3. CASE primary = <<>>
  <2>1. CASE matches = <<>>
    <3>1. range = <<0, 0>>
      BY <1>3, <2>1 DEF LineRange
    <3> QED BY <3>1 DEF Shows
  <2>2. CASE matches # <<>>
    <3> DEFINE m == Min(ToSet(matches))
               M == Max(ToSet(matches))
               f == MaxOf(1, m - 2)
               l == MinOf(total, M + 4)
    <3>1. /\ m \in ToSet(matches) /\ m \in 1 .. total /\ M \in 1 .. total
          /\ m <= M /\ total \in Nat \ {0}
      BY <1>2, <2>2
    <3>2. range = BoundedRange(f, l, total)
      BY <1>3, <2>2 DEF LineRange
    <3> HIDE DEF m, M, total
    <3>3. /\ f \in Int /\ l \in Int /\ f <= m /\ m <= l
          /\ m - f < MaxExcerptLines
      BY <1>1, <3>1 DEF MaxOf, MinOf
    <3> HIDE DEF f, l
    <3>4. Shows(BoundedRange(f, l, total), matches, primary, total)
      BY <3>1, <3>3, BoundedRangeShows
    <3> QED BY <3>2, <3>4 DEF total
  <2> QED BY <2>1, <2>2
<1>4. CASE primary # <<>>
  <2> DEFINE p == primary[1]
  <2>1. p \in Symbols(1 .. total)
    BY <1>4
  <2>2. p.line \in 1 .. total /\ total \in Nat \ {0}
    BY <1>1, <2>1 DEF Symbols
  <2>3. scope[1] = p.line /\ scope[2] \in Int
    <3> HIDE DEF p
    <3>1. p.line \in 1 .. Len(lines)
      BY <2>2
    <3>2. LET r == SymbolScopeRange(language, lines, p)
          IN  r[1] = p.line /\ r[2] \in Int
      BY <3>1, ScopeRangeType
    <3> QED BY <3>2 DEF p
  <2>4. CASE scoped = <<>>
    <3> DEFINE f == MaxOf(1, p.line - 1)
               l == MinOf(total, p.line + 5)
    <3>1. range = BoundedRange(f, l, total)
      BY <1>4, <2>4 DEF LineRange
    <3> HIDE DEF total
    <3>2. /\ f \in Int /\ l \in Int /\ f <= p.line /\ p.line <= l
          /\ p.line - f < MaxExcerptLines
      <4> HIDE DEF p
      <4> QED BY <1>1, <2>2 DEF MaxOf, MinOf
    <3> HIDE DEF f, l
    <3>3. Shows(BoundedRange(f, l, total), matches, primary, total)
      BY <1>4, <2>2, <3>2, BoundedRangeShows
    <3> QED BY <3>1, <3>3 DEF total
  <2>5. CASE scoped # <<>>
    <3>1. /\ scoped \in Seq(1 .. total)
          /\ \A i \in DOMAIN scoped :
                scoped[i] \in (scope[1] .. scope[2]) \cap ToSet(matches)
      <4> HIDE DEF total, scope
      <4> QED BY OnlyType DEF total
    <3>2. \A x \in ToSet(scoped) : x \in (scope[1] .. scope[2]) \cap ToSet(matches)
      <4> HIDE DEF scoped, scope
      <4> QED BY <3>1 DEF ToSet
    <3>3. /\ scoped[1] \in ToSet(scoped) /\ ToSet(scoped) \subseteq 1 .. total
          /\ first \in ToSet(scoped) /\ last \in ToSet(scoped)
          /\ first <= last
      <4> HIDE DEF scoped, total
      <4> QED BY <1>2, <2>5, <3>1
    <3>4. /\ scoped[1] \in ToSet(matches) /\ scoped[1] \in 1 .. total
          /\ scope[1] <= scoped[1] /\ scoped[1] <= scope[2]
          /\ first \in ToSet(matches) /\ first \in 1 .. total
          /\ scope[1] <= first /\ first <= scope[2] /\ last \in 1 .. total
          /\ scope[1] \in Int
      <4> HIDE DEF scoped, first, last, scope, total
      <4> QED BY <2>2, <2>3, <3>2, <3>3
    <3>5. CASE last - first + 1 > MaxExcerptLines
      <4> DEFINE l == MinOf(scope[2], start + MaxExcerptLines - 1)
      <4>1. range = BoundedRange(start, l, total)
        BY <1>4, <2>5, <3>5 DEF LineRange
      <4> HIDE DEF total, scoped, scope
      <4>2. /\ start \in Int /\ l \in Int /\ start <= scoped[1]
            /\ scoped[1] <= l /\ scoped[1] - start < MaxExcerptLines
        <5> DEFINE low == scope[1]
                   high == scope[2]
                   x == scoped[1]
                   y == start + MaxExcerptLines - 1
        <5>1. /\ low \in Int /\ high \in Int /\ x \in Int /\ low <= x /\ x <= high
          BY <2>3, <3>4
        <5>2. start = MaxOf(low, x - 3) /\ l = MinOf(high, y)
          OBVIOUS
        <5> HIDE DEF start, l, low, high, x
        <5>3. /\ start \in Int /\ start <= x /\ x - start <= 3 /\ x - 3 <= start
          <6> DEFINE d == 3
          <6>1. d \in Nat
            OBVIOUS
          <6> HIDE DEF d
          <6>2. LET n == MaxOf(low, x - d)
                IN  n \in Int /\ n <= x /\ x - n <= d /\ x - d <= n
            BY <5>1, <6>1, Before
          <6> QED BY <5>2, <6>2 DEF d
        <5>4. y \in Int /\ x <= y /\ x - start < MaxExcerptLines
          BY <1>1, <5>1, <5>3
        <5> HIDE DEF y
        <5>5. l \in Int /\ x <= l
          BY <5>1, <5>2, <5>4, UpToLine
        <5> QED BY <5>3, <5>4, <5>5 DEF x
      <4> HIDE DEF start, l
      <4>3. Shows(BoundedRange(start, l, total), matches, primary, total)
        BY <2>2, <3>4, <4>2, BoundedRangeShows
      <4> QED BY <4>1, <4>3 DEF total
    <3>6. CASE ~(last - first + 1 > MaxExcerptLines)
      <4> DEFINE f == MaxOf(scope[1], first - 2)
                 l == MinOf(scope[2], last + 4)
      <4>1. range = BoundedRange(f, l, total)
        BY <1>4, <2>5, <3>6 DEF LineRange
      <4> HIDE DEF total, scope, first, last
      <4>2. /\ f \in Int /\ l \in Int /\ f <= first
            /\ first <= l /\ first - f < MaxExcerptLines
        <5> DEFINE low == scope[1]
                   high == scope[2]
                   y == last + 4
        <5>1. /\ low \in Int /\ high \in Int /\ first \in Int
              /\ low <= first /\ first <= high
              /\ y \in Int /\ first <= y
          BY <2>3, <3>3, <3>4
        <5>2. f = MaxOf(low, first - 2) /\ l = MinOf(high, y)
          OBVIOUS
        <5> HIDE DEF f, l, low, high, y
        <5>3. f \in Int /\ f <= first /\ first - f <= 2
          <6> DEFINE d == 2
          <6>1. d \in Nat
            OBVIOUS
          <6> HIDE DEF d
          <6>2. LET n == MaxOf(low, first - d)
                IN  n \in Int /\ n <= first /\ first - n <= d /\ first - d <= n
            BY <5>1, <6>1, Before
          <6> QED BY <5>2, <6>2 DEF d
        <5>4. l \in Int /\ first <= l
          BY <5>1, <5>2, UpToLine
        <5> QED BY <1>1, <5>1, <5>3, <5>4
      <4> HIDE DEF f, l
      <4>3. Shows(BoundedRange(f, l, total), matches, primary, total)
        BY <2>2, <3>4, <4>2, BoundedRangeShows
      <4> QED BY <4>1, <4>3 DEF total
    <3> QED BY <3>5, <3>6
  <2> QED BY <2>4, <2>5
<1> QED BY <1>3, <1>4

-----------------------------------------------------------------------------
(* Resolution of calls across files.                                       *)

Files(F) ==
    {f \in [file : F, language : Names, lines : Seq(Lines), score : Nat,
            analysis : Analyses(F, Nat)] :
        f.analysis \in Analyses(F, 1 .. Len(f.lines))}

LEMMA FileTypes ==
  ASSUME NEW F, NEW f \in Files(F)
  PROVE  /\ f.file \in F /\ f.language \in Names /\ f.lines \in Seq(Lines)
         /\ f.analysis.symbols \in Seq(Symbols(1 .. Len(f.lines)))
         /\ f.analysis.edges \in Seq(Edges(F, 1 .. Len(f.lines)))
         /\ f.analysis.relations \in Seq(Relations(1 .. Len(f.lines)))
<1>1. /\ f.file \in F /\ f.language \in Names /\ f.lines \in Seq(Lines)
      /\ f.analysis \in Analyses(F, 1 .. Len(f.lines))
  BY DEF Files
<1> QED BY <1>1 DEF Analyses

LEMMA AllSymbolsType ==
  ASSUME NEW F, NEW files \in Seq(Files(F))
  PROVE  AllSymbols(files) \in Seq(Targets(F))
<1> DEFINE symbols(i) == files[i].analysis.symbols
           all(i) == [k \in DOMAIN symbols(i) |->
                        Located(files[i].file, symbols(i)[k])]
           ss == [i \in DOMAIN files |-> all(i)]
<1>1. DOMAIN files = 1 .. Len(files) /\ Len(files) \in Nat
  OBVIOUS
<1>2. ASSUME NEW i \in DOMAIN files
      PROVE  all(i) \in Seq(Targets(F))
  <2>1. files[i] \in Files(F)
    OBVIOUS
  <2>2. /\ files[i].file \in F
        /\ symbols(i) \in Seq(Symbols(1 .. Len(files[i].lines)))
    BY <2>1, FileTypes
  <2> HIDE DEF symbols
  <2>3. ASSUME NEW k \in DOMAIN symbols(i)
        PROVE  Located(files[i].file, symbols(i)[k]) \in Targets(F)
    <3>1. symbols(i)[k] \in Symbols(1 .. Len(files[i].lines))
      BY <2>2
    <3>2. Len(files[i].lines) \in Nat
      BY <2>1, FileTypes
    <3>3. symbols(i)[k] \in Symbols(Nat)
      BY <3>1, <3>2 DEF Symbols
    <3> QED BY <2>2, <3>3 DEF Located, Targets
  <2>4. DOMAIN symbols(i) = 1 .. Len(symbols(i)) /\ Len(symbols(i)) \in Nat
    BY <2>2
  <2>5. all(i) \in [1 .. Len(symbols(i)) -> Targets(F)]
    BY <2>3, <2>4
  <2> HIDE DEF all
  <2> QED BY <2>4, <2>5
<1> HIDE DEF all
<1>3. /\ DOMAIN ss = 1 .. Len(files)
      /\ ss = [i \in 1 .. Len(files) |-> ss[i]]
      /\ \A i \in 1 .. Len(files) : ss[i] \in Seq(Targets(F))
  BY <1>1, <1>2
<1> HIDE DEF ss
<1>4. FlattenSeq(ss) \in Seq(Targets(F))
  BY <1>1, <1>3, FlattenEach
<1> QED BY <1>4 DEF AllSymbols, ss, all

LEMMA AllRelationsType ==
  ASSUME NEW F, NEW files \in Seq(Files(F))
  PROVE  FlattenSeq([i \in DOMAIN files |-> files[i].analysis.relations])
           \in Seq(Relations(Nat))
<1> DEFINE ss == [i \in DOMAIN files |-> files[i].analysis.relations]
<1>1. DOMAIN files = 1 .. Len(files) /\ Len(files) \in Nat
  OBVIOUS
<1>2. ASSUME NEW i \in DOMAIN files
      PROVE  files[i].analysis.relations \in Seq(Relations(Nat))
  <2>1. files[i] \in Files(F)
    OBVIOUS
  <2> DEFINE L == 1 .. Len(files[i].lines)
  <2>2. files[i].analysis.relations \in Seq(Relations(L))
    BY <2>1, FileTypes
  <2>3. L \subseteq Nat
    BY <2>1, FileTypes
  <2> HIDE DEF L
  <2>4. Relations(L) \subseteq Relations(Nat)
    BY <2>3 DEF Relations
  <2> QED BY <2>2, <2>4
<1>3. /\ DOMAIN ss = 1 .. Len(files)
      /\ ss = [i \in 1 .. Len(files) |-> ss[i]]
      /\ \A i \in 1 .. Len(files) : ss[i] \in Seq(Relations(Nat))
  BY <1>1, <1>2
<1> HIDE DEF ss
<1>4. FlattenSeq(ss) \in Seq(Relations(Nat))
  BY <1>1, <1>3, FlattenEach
<1> QED BY <1>4 DEF ss

LEMMA CandidatesType ==
  ASSUME NEW F, NEW files \in Seq(Files(F)), NEW e
  PROVE  Candidates(files, e) \in Seq(Targets(F))
<1> DEFINE all == AllSymbols(files)
           named == Only(all, {t \in ToSet(all) : t.symbol.name = e.callee})
           owned(owner) == Only(named, {t \in ToSet(named) :
                                          t.symbol.owner = owner})
           relations == FlattenSeq([i \in DOMAIN files |->
                                      files[i].analysis.relations])
           implementers == Only(relations, {r \in ToSet(relations) :
                                              r.interface = e.type})
           ss == [i \in DOMAIN implementers |->
                    owned(<<implementers[i].type>>)]
<1>1. Candidates(files, e) =
        IF e.type # None THEN owned(<<e.type>>) \o FlattenSeq(ss)
        ELSE IF e.qualifier # <<>> THEN owned(e.qualifier)
        ELSE named
  BY DEF Candidates
<1>2. named \in Seq(Targets(F))
  BY AllSymbolsType, OnlyType
<1>3. \A owner : owned(owner) \in Seq(Targets(F))
  <2> HIDE DEF named
  <2> QED BY <1>2, OnlyType
<1>4. implementers \in Seq(Relations(Nat))
  BY AllRelationsType, OnlyType
<1> HIDE DEF owned, implementers, named
<1>5. FlattenSeq(ss) \in Seq(Targets(F))
  <2>1. DOMAIN implementers = 1 .. Len(implementers) /\ Len(implementers) \in Nat
    BY <1>4
  <2>2. /\ DOMAIN ss = 1 .. Len(implementers)
        /\ ss = [i \in 1 .. Len(implementers) |-> ss[i]]
        /\ \A i \in 1 .. Len(implementers) : ss[i] \in Seq(Targets(F))
    BY <1>3, <2>1
  <2> HIDE DEF ss
  <2> QED BY <2>1, <2>2, FlattenEach
<1> HIDE DEF ss
<1>6. owned(<<e.type>>) \o FlattenSeq(ss) \in Seq(Targets(F))
  BY <1>3, <1>5
<1> QED BY <1>1, <1>2, <1>3, <1>6

LEMMA ResolveEdgeType ==
  ASSUME NEW F, NEW L, NEW files \in Seq(Files(F)), NEW file,
         NEW e \in Edges(F, L)
  PROVE  LET r == ResolveEdge(files, file, e)
         IN  r \in Edges(F, L) /\ r.caller = e.caller /\ r.line = e.line
<1> DEFINE unique == Distinct(Candidates(files, e))
           key(t) == <<BooleanAsNumber(t.file = file),
                       BooleanAsNumber(t.symbol.kind \in {"method", "function"}),
                       -t.symbol.line>>
           keys == [i \in DOMAIN unique |-> key(unique[i])]
           found == Prefix(Ranked(unique, keys), MaxResolved)
           how == ResolutionKind(e)
           confidence == ResolutionConfidence(how, Len(found))
           r == [e EXCEPT !.resolved = found, !.how = how,
                          !.confidence = confidence]
<1>1. ResolveEdge(files, file, e) = IF found = <<>> THEN e ELSE r
  BY DEF ResolveEdge
<1>2. unique \in Seq(Targets(F))
  BY CandidatesType, DistinctType
<1> HIDE DEF unique
<1>3. Ranked(unique, keys) \in Seq(Targets(F))
  <2> HIDE DEF keys
  <2> QED BY <1>2, RankedType
<1> HIDE DEF keys
<1>4. found \in Seq(Targets(F))
  BY <1>3, PrefixType, LimitsAssumption
<1>5. how \in Hows
  BY DEF ResolutionKind, Hows
<1>6. confidence \in Nat
  <2>1. how \in {"receiver_type", "qualified_callee", "symbol_name"}
    BY DEF ResolutionKind
  <2> HIDE DEF how, found
  <2> QED BY <2>1 DEF ResolutionConfidence
<1> HIDE DEF found, how, confidence
<1>7. r \in Edges(F, L) /\ r.caller = e.caller /\ r.line = e.line
  BY <1>4, <1>5, <1>6 DEF Edges
<1> QED BY <1>1, <1>7

-----------------------------------------------------------------------------
(* Hits.                                                                   *)

Hits(F) ==
    [file : F, words : Seq(Names \cup {"context"}), lines : Seq(Nat),
     primary : Seq(Symbols(Nat)), range : Nat \X Nat,
     symbols : Seq(Symbols(Nat)), edges : Seq(Edges(F, Nat)),
     relations : Seq(Relations(Nat))]

Limited(h) ==
    /\ Len(h.edges) <= MaxCallEdges
    /\ Len(h.symbols) <= MaxOf(MaxSymbols, ContextSymbols)
    /\ Len(h.lines) <= MaxOf(1, MaxLineNumbers)
    /\ Len(h.words) <= MaxOf(1, MaxMatchedTerms)

\* a hit of one of the files whose quoted lines are of that file
HitsIn(F, files) ==
    {h \in Hits(F) :
       /\ Limited(h)
       /\ RepeatsAsItsFile(h, files)
       /\ \E f \in ToSet(files) : f.file = h.file
       /\ \A f \in ToSet(files) : f.file = h.file =>
             Shows(h.range, h.lines, h.primary, Len(f.lines))}

\* hits_by_file has one hit of a file
OfOneFileEach(all) ==
    \A i, j \in DOMAIN all : all[i].file = all[j].file => i = j
HitLists(F, files) == {all \in Seq(HitsIn(F, files)) : OfOneFileEach(all)}

LEMMA LimitTypes ==
  /\ MaxLineNumbers \in Nat /\ MaxSymbols \in Nat /\ MaxCallEdges \in Nat
  /\ MaxResolved \in Nat /\ ContextSymbols \in Nat
  /\ MaxMatchedTerms \in Nat
BY LimitsAssumption

LEMMA HitOfIs ==
  ASSUME NEW U, NEW all \in Seq(U), NEW file
  PROVE  \/ HitOf(all, file) = 0 /\ \A k \in DOMAIN all : all[k].file # file
         \/ HitOf(all, file) \in DOMAIN all /\ all[HitOf(all, file)].file = file
<1> DEFINE I == {i \in 1 .. Len(all) : all[i].file = file}
<1>1. DOMAIN all = 1 .. Len(all) /\ Len(all) \in Nat
  OBVIOUS
<1>2. I \in SUBSET Nat
  BY <1>1
<1>3. HitOf(all, file) = IF I # {} THEN Min(I) ELSE 0
  BY DEF HitOf, SelectInSeq
<1>4. CASE I = {}
  BY <1>1, <1>3, <1>4
<1>5. CASE I # {}
  <2>1. Min(I) \in I
    <3> HIDE DEF I
    <3> QED BY <1>2, <1>5, MinIs
  <2> QED BY <1>1, <1>3, <1>5, <2>1
<1> QED BY <1>4, <1>5

LEMMA PutHitType ==
  ASSUME NEW F, NEW files, NEW all \in HitLists(F, files),
         NEW hit \in HitsIn(F, files)
  PROVE  /\ PutHit(all, hit) \in HitLists(F, files)
         /\ \E i \in DOMAIN PutHit(all, hit) : PutHit(all, hit)[i] = hit
<1> DEFINE G == HitsIn(F, files)
           i == HitOf(all, hit.file)
           put == PutHit(all, hit)
<1>1. all \in Seq(G) /\ OfOneFileEach(all)
  BY DEF HitLists
<1>2. DOMAIN all = 1 .. Len(all) /\ Len(all) \in Nat
  BY <1>1
<1> HIDE DEF G
<1>3. \/ i = 0 /\ \A k \in DOMAIN all : all[k].file # hit.file
      \/ i \in DOMAIN all /\ all[i].file = hit.file
  BY <1>1, HitOfIs
<1>4. hit \in G
  BY DEF G
<1>5. CASE i = 0 /\ \A k \in DOMAIN all : all[k].file # hit.file
  <2>1. put = Append(all, hit)
    BY <1>5 DEF PutHit
  <2>2. /\ put \in Seq(G) /\ DOMAIN put = 1 .. Len(all) + 1
        /\ put[Len(all) + 1] = hit /\ \A k \in DOMAIN all : put[k] = all[k]
    BY <1>1, <1>4, <2>1
  <2>3. OfOneFileEach(put)
    <3> HIDE DEF put
    <3>1. \A k \in DOMAIN put : k = Len(all) + 1 \/ k \in DOMAIN all
      BY <1>2, <2>2
    <3> QED BY <1>1, <1>5, <2>2, <3>1 DEF OfOneFileEach
  <2>4. Len(all) + 1 \in DOMAIN put
    BY <1>2, <2>2
  <2> HIDE DEF put
  <2>5. put \in HitLists(F, files)
    BY <2>2, <2>3 DEF HitLists, G
  <2> QED BY <2>2, <2>4, <2>5 DEF put
<1>6. CASE i \in DOMAIN all /\ all[i].file = hit.file
  <2>1. i # 0
    <3> HIDE DEF i
    <3> QED BY <1>2, <1>6
  <2>2. put = [all EXCEPT ![i] = hit]
    BY <2>1 DEF PutHit
  <2> HIDE DEF i, put
  <2>3. /\ put \in Seq(G) /\ DOMAIN put = DOMAIN all
        /\ put[i] = hit /\ \A k \in DOMAIN all : k # i => put[k] = all[k]
    BY <1>1, <1>4, <1>6, <2>2
  <2>4. \A k \in DOMAIN all : put[k].file = all[k].file
    BY <1>6, <2>3
  <2>5. OfOneFileEach(put)
    BY <1>1, <2>3, <2>4 DEF OfOneFileEach
  <2>6. put \in HitLists(F, files)
    BY <2>3, <2>5 DEF HitLists, G
  <2> QED BY <1>6, <2>3, <2>6 DEF put
<1> QED BY <1>3, <1>5, <1>6

LEMMA LastScannedType ==
  ASSUME NEW U, NEW files \in Seq(U), NEW f \in ToSet(files)
  PROVE  LastScanned(files, f.file) \in U
<1> DEFINE I == {i \in DOMAIN files : files[i].file = f.file}
<1>1. DOMAIN files = 1 .. Len(files) /\ Len(files) \in Nat
  OBVIOUS
<1>2. I \in SUBSET (0 .. Len(files)) /\ I # {}
  BY <1>1 DEF ToSet
<1>3. LastScanned(files, f.file) = files[Max(I)]
  BY DEF LastScanned
<1>4. Max(I) \in I
  <2> HIDE DEF I
  <2> QED BY <1>1, <1>2, MaxIs
<1> QED BY <1>3, <1>4

\* one more element, which was not there, repeats nothing
LEMMA RepeatedMore ==
  ASSUME NEW n \in Nat, NEW s, DOMAIN s = 1 .. n, NEW t, DOMAIN t = 1 .. n + 1,
         \A i \in 1 .. n : t[i] = s[i], t[n + 1] \notin ToSet(s)
  PROVE  Repeated(t) \subseteq Repeated(s)
<1> SUFFICES ASSUME NEW i \in DOMAIN t, NEW j \in DOMAIN t, j # i, t[j] = t[i]
             PROVE  t[i] \in Repeated(s)
  BY DEF Repeated
<1>1. \A k \in 1 .. n : t[k] # t[n + 1]
  BY DEF ToSet
<1>2. i \in 1 .. n /\ j \in 1 .. n
  BY <1>1
<1> QED BY <1>2 DEF Repeated

\* some of the elements repeat no more than all
LEMMA RepeatedPlaces ==
  ASSUME NEW s, NEW t, NEW p \in [DOMAIN t -> DOMAIN s],
         \A i \in DOMAIN t : t[i] = s[p[i]],
         \A i \in DOMAIN t : \A j \in DOMAIN t : p[i] = p[j] => i = j
  PROVE  Repeated(t) \subseteq Repeated(s)
<1> SUFFICES ASSUME NEW i \in DOMAIN t, NEW j \in DOMAIN t, j # i, t[j] = t[i]
             PROVE  t[i] \in Repeated(s)
  BY DEF Repeated
<1>1. /\ p[i] \in DOMAIN s /\ p[j] \in DOMAIN s /\ p[i] # p[j]
      /\ s[p[i]] = s[p[j]] /\ t[i] = s[p[i]]
  OBVIOUS
<1> QED BY <1>1 DEF Repeated

\* the first of those of a list that are selected repeat no more than all
LEMMA SelectedRepeat ==
  ASSUME NEW U, NEW s \in Seq(U), NEW S, NEW n \in Nat
  PROVE  LET t == Prefix(Only(s, S), n)
         IN  /\ Repeated(CallKeys(t)) \subseteq Repeated(CallKeys(s))
             /\ Repeated(RelationKeys(t)) \subseteq Repeated(RelationKeys(s))
<1> DEFINE all == Only(s, S)
           t == Prefix(all, n)
           q(p) == [i \in DOMAIN t |-> p[i]]
<1>1. all \in Seq(U)
  BY OnlyType
<1>2. PICK p : PlacesOf(p, all, s, Len(s))
  BY OnlyPlaces
<1> HIDE DEF all
<1>3. DOMAIN t \subseteq DOMAIN all /\ \A i \in DOMAIN t : t[i] = all[i]
  BY <1>1, PrefixType
<1> HIDE DEF t
<1>4. /\ q(p) \in [DOMAIN t -> DOMAIN s]
      /\ \A i \in DOMAIN t : t[i] = s[q(p)[i]]
      /\ \A i \in DOMAIN t : \A j \in DOMAIN t : q(p)[i] = q(p)[j] => i = j
  <2>1. DOMAIN s = 1 .. Len(s)
    OBVIOUS
  <2> QED BY <1>2, <1>3, <2>1 DEF PlacesOf
<1> HIDE DEF q
<1>5. Repeated(CallKeys(t)) \subseteq Repeated(CallKeys(s))
  <2>1. /\ DOMAIN CallKeys(s) = DOMAIN s /\ DOMAIN CallKeys(t) = DOMAIN t
        /\ \A i \in DOMAIN t : CallKeys(t)[i] = CallKeys(s)[q(p)[i]]
    BY <1>4 DEF CallKeys
  <2> QED BY <1>4, <2>1, RepeatedPlaces
<1>6. Repeated(RelationKeys(t)) \subseteq Repeated(RelationKeys(s))
  <2>1. /\ DOMAIN RelationKeys(s) = DOMAIN s
        /\ DOMAIN RelationKeys(t) = DOMAIN t
        /\ \A i \in DOMAIN t : RelationKeys(t)[i] = RelationKeys(s)[q(p)[i]]
    BY <1>4 DEF RelationKeys
  <2> QED BY <1>4, <2>1, RepeatedPlaces
<1> QED BY <1>5, <1>6 DEF t, all

LEMMA ContextHitType ==
  ASSUME NEW F, NEW files \in Seq(Files(F)), NEW f \in ToSet(files),
         NEW line \in Nat
  PROVE  ContextHit(files, f, line) \in HitsIn(F, files)
<1> DEFINE last == LastScanned(files, f.file)
           h == ContextHit(files, f, line)
           words == <<"context">>
           lines == <<line>>
           empty == <<>>
           range == <<0, 0>>
           symbols == Prefix(last.analysis.symbols, ContextSymbols)
<1>1. f \in Files(F) /\ last \in Files(F)
  BY LastScannedType DEF ToSet
<1> HIDE DEF last
<1>2. h = [file |-> f.file, words |-> words, lines |-> lines, primary |-> empty,
           range |-> range, symbols |-> symbols, edges |-> empty,
           relations |-> empty]
  BY DEF ContextHit, last
<1>3. /\ f.file \in F /\ last.analysis.symbols \in Seq(Symbols(Nat))
  <2> DEFINE L == 1 .. Len(last.lines)
  <2>1. /\ f.file \in F /\ last.analysis.symbols \in Seq(Symbols(L))
        /\ L \subseteq Nat
    BY <1>1, FileTypes
  <2> HIDE DEF L
  <2>2. Symbols(L) \subseteq Symbols(Nat)
    BY <2>1 DEF Symbols
  <2> QED BY <2>1, <2>2
<1>4. symbols \in Seq(Symbols(Nat)) /\ Len(symbols) \in 0 .. ContextSymbols
      /\ ContextSymbols \in Nat
  BY <1>3, PrefixType, LimitsAssumption
<1>5. /\ words \in Seq(Names \cup {"context"}) /\ Len(words) = 1
      /\ lines \in Seq(Nat)
      /\ range \in Nat \X Nat /\ empty \in Seq(Symbols(Nat))
      /\ empty \in Seq(Edges(F, Nat)) /\ empty \in Seq(Relations(Nat))
      /\ Len(empty) = 0 /\ Len(lines) = 1 /\ DOMAIN empty = {}
  OBVIOUS
<1>6. \A N : Shows(range, lines, empty, N)
  BY DEF Shows
<1> HIDE DEF h, words, lines, empty, range, symbols
<1>7. h \in Hits(F)
  BY <1>2, <1>3, <1>4, <1>5 DEF Hits
<1>8. /\ h.file = f.file /\ h.range = range /\ h.lines = lines
      /\ h.primary = empty /\ h.symbols = symbols /\ h.edges = empty
      /\ h.words = words /\ h.relations = empty
  BY <1>2
<1>9. Limited(h)
  <2>1. /\ 0 <= MaxCallEdges /\ 1 <= MaxOf(1, MaxLineNumbers)
        /\ 1 <= MaxOf(1, MaxMatchedTerms)
        /\ ContextSymbols <= MaxOf(MaxSymbols, ContextSymbols)
    BY LimitTypes DEF MaxOf
  <2>2. MaxOf(MaxSymbols, ContextSymbols) \in Nat /\ Len(symbols) \in Nat
        /\ Len(symbols) <= ContextSymbols
    BY <1>4, LimitTypes DEF MaxOf
  <2>3. /\ Len(h.edges) = 0 /\ Len(h.lines) = 1 /\ Len(h.words) = 1
        /\ Len(h.symbols) = Len(symbols)
    BY <1>5, <1>8
  <2>4. Len(symbols) <= MaxOf(MaxSymbols, ContextSymbols)
    BY <1>4, <2>1, <2>2
  <2> QED BY <2>1, <2>3, <2>4 DEF Limited
<1>10. RepeatsAsItsFile(h, files)
  BY <1>5, <1>8 DEF RepeatsAsItsFile, Repeated, CallKeys, RelationKeys
<1>11. h \in HitsIn(F, files)
  BY <1>6, <1>7, <1>8, <1>9, <1>10 DEF HitsIn
<1> QED BY <1>11 DEF h

LEMMA OrContextType ==
  ASSUME NEW F, NEW files \in Seq(Files(F)), NEW f \in ToSet(files),
         NEW line \in Nat, NEW all \in HitLists(F, files)
  PROVE  LET with == OrContext(files, all, f, line)
         IN  /\ with \in HitLists(F, files)
             /\ HitOf(with, f.file) \in DOMAIN with
<1> DEFINE with == OrContext(files, all, f, line)
           hit == ContextHit(files, f, line)
<1>0. \A t \in HitLists(F, files) : t \in Seq(HitsIn(F, files))
  BY DEF HitLists
<1>1. CASE HitOf(all, f.file) # 0
  <2>1. with = all
    BY <1>1 DEF OrContext
  <2>2. HitOf(all, f.file) \in DOMAIN all
    BY <1>0, <1>1, HitOfIs
  <2> QED BY <2>1, <2>2
<1>2. CASE HitOf(all, f.file) = 0
  <2>1. with = PutHit(all, hit)
    BY <1>2 DEF OrContext
  <2>2. hit \in HitsIn(F, files) /\ hit.file = f.file
    BY ContextHitType DEF ContextHit
  <2> HIDE DEF with, hit
  <2>3. with \in HitLists(F, files) /\ \E i \in DOMAIN with : with[i] = hit
    BY <2>1, <2>2, PutHitType
  <2>4. HitOf(with, f.file) \in DOMAIN with
    BY <1>0, <2>2, <2>3, HitOfIs
  <2> QED BY <2>3, <2>4 DEF with
<1> QED BY <1>1, <1>2

\* a hit with other calls or relations
LEMMA ReplaceHit ==
  ASSUME NEW F, NEW files, NEW all \in HitLists(F, files), NEW i \in DOMAIN all,
         NEW hit \in HitsIn(F, files), hit.file = all[i].file
  PROVE  [all EXCEPT ![i] = hit] \in HitLists(F, files)
<1> DEFINE G == HitsIn(F, files)
           t == [all EXCEPT ![i] = hit]
<1>1. all \in Seq(G) /\ OfOneFileEach(all) /\ hit \in G
  BY DEF HitLists
<1> HIDE DEF G
<1>2. /\ t \in Seq(G) /\ DOMAIN t = DOMAIN all
      /\ t[i] = hit /\ \A k \in DOMAIN all : k # i => t[k] = all[k]
  BY <1>1
<1> HIDE DEF t
<1>3. OfOneFileEach(t)
  <2>1. \A k \in DOMAIN all : t[k].file = all[k].file
    BY <1>2
  <2> QED BY <1>1, <1>2, <2>1 DEF OfOneFileEach
<1>4. t \in HitLists(F, files)
  BY <1>2, <1>3 DEF HitLists, G
<1> QED BY <1>4 DEF t

LEMMA AddEdgeType ==
  ASSUME NEW F, NEW files \in Seq(Files(F)), NEW f \in ToSet(files),
         NEW all \in HitLists(F, files), NEW e \in Edges(F, Nat)
  PROVE  AddEdge(files, all, f, e) \in HitLists(F, files)
<1> DEFINE with == OrContext(files, all, f, e.line)
           i == HitOf(with, f.file)
           h == with[i]
           edges == Append(h.edges, e)
           more == [h EXCEPT !.edges = edges]
           full == \/ Len(h.edges) >= MaxCallEdges
                   \/ CallKey(e) \in ToSet(CallKeys(h.edges))
<1>1. AddEdge(files, all, f, e) = IF full THEN with ELSE [with EXCEPT ![i] = more]
  BY DEF AddEdge
<1>2. with \in HitLists(F, files) /\ i \in DOMAIN with
  <2>1. e.line \in Nat
    BY DEF Edges
  <2> QED BY <2>1, OrContextType
<1> HIDE DEF with, i
<1>3. h \in HitsIn(F, files)
  BY <1>2 DEF HitLists
<1> HIDE DEF h
<1>4. h \in Hits(F) /\ h.edges \in Seq(Edges(F, Nat))
  BY <1>3 DEF HitsIn, Hits
<1>5. edges \in Seq(Edges(F, Nat)) /\ Len(edges) = Len(h.edges) + 1
      /\ Len(h.edges) \in Nat
  BY <1>4
<1> HIDE DEF edges
<1>6. /\ more \in Hits(F) /\ more.edges = edges /\ more.file = h.file
      /\ more.lines = h.lines /\ more.symbols = h.symbols
      /\ more.range = h.range /\ more.primary = h.primary
      /\ more.words = h.words /\ more.relations = h.relations
  BY <1>4, <1>5 DEF Hits
<1> HIDE DEF more
<1>7. ASSUME ~full
      PROVE  more \in HitsIn(F, files)
  <2>1. Len(edges) <= MaxCallEdges
    BY <1>5, <1>7, LimitTypes
  <2>2. Limited(h) /\ Limited(more)
    BY <1>3, <1>6, <2>1 DEF HitsIn, Limited
  <2>3. Repeated(CallKeys(edges)) \subseteq Repeated(CallKeys(h.edges))
    <3> DEFINE n == Len(h.edges)
               s == CallKeys(h.edges)
               t == CallKeys(edges)
    <3>1. /\ n \in Nat /\ DOMAIN s = 1 .. n /\ DOMAIN t = 1 .. n + 1
          /\ \A k \in 1 .. n : t[k] = s[k]
          /\ t[n + 1] = CallKey(e)
      BY <1>4, <1>5 DEF CallKeys, edges
    <3>2. CallKey(e) \notin ToSet(s)
      BY <1>7
    <3> HIDE DEF n, s, t
    <3>3. Repeated(t) \subseteq Repeated(s)
      BY <3>1, <3>2, RepeatedMore
    <3> QED BY <3>3 DEF s, t
  <2>4. RepeatsAsItsFile(more, files)
    BY <1>3, <1>6, <2>3 DEF HitsIn, RepeatsAsItsFile
  <2> QED BY <1>3, <1>6, <2>2, <2>4 DEF HitsIn
<1> HIDE DEF full
<1>8. ~full => [with EXCEPT ![i] = more] \in HitLists(F, files)
  BY <1>2, <1>6, <1>7, ReplaceHit DEF h
<1> QED BY <1>1, <1>2, <1>8

LEMMA AddRelationType ==
  ASSUME NEW F, NEW files \in Seq(Files(F)), NEW f \in ToSet(files),
         NEW all \in HitLists(F, files), NEW r \in Relations(Nat)
  PROVE  AddRelation(files, all, f, r) \in HitLists(F, files)
<1> DEFINE with == OrContext(files, all, f, r.line)
           i == HitOf(with, f.file)
           h == with[i]
           relations == Append(h.relations, r)
           more == [h EXCEPT !.relations = relations]
           again == RelationKey(r) \in ToSet(RelationKeys(h.relations))
<1>1. AddRelation(files, all, f, r) = IF again THEN with
                                      ELSE [with EXCEPT ![i] = more]
  BY DEF AddRelation
<1>2. with \in HitLists(F, files) /\ i \in DOMAIN with
  <2>1. r.line \in Nat
    BY DEF Relations
  <2> QED BY <2>1, OrContextType
<1> HIDE DEF with, i
<1>3. h \in HitsIn(F, files)
  BY <1>2 DEF HitLists
<1> HIDE DEF h
<1>4. h \in Hits(F) /\ h.relations \in Seq(Relations(Nat))
  BY <1>3 DEF HitsIn, Hits
<1>5. relations \in Seq(Relations(Nat)) /\ Len(h.relations) \in Nat
      /\ Len(relations) = Len(h.relations) + 1
  BY <1>4
<1> HIDE DEF relations
<1>6. /\ more \in Hits(F) /\ more.edges = h.edges /\ more.file = h.file
      /\ more.lines = h.lines /\ more.symbols = h.symbols
      /\ more.range = h.range /\ more.primary = h.primary
      /\ more.words = h.words /\ more.relations = relations
  BY <1>4, <1>5 DEF Hits
<1> HIDE DEF more
<1>7. ASSUME ~again
      PROVE  more \in HitsIn(F, files)
  <2>1. Repeated(RelationKeys(relations))
          \subseteq Repeated(RelationKeys(h.relations))
    <3> DEFINE n == Len(h.relations)
               s == RelationKeys(h.relations)
               t == RelationKeys(relations)
    <3>1. /\ n \in Nat /\ DOMAIN s = 1 .. n /\ DOMAIN t = 1 .. n + 1
          /\ \A k \in 1 .. n : t[k] = s[k]
          /\ t[n + 1] = RelationKey(r)
      BY <1>4, <1>5 DEF RelationKeys, relations
    <3>2. RelationKey(r) \notin ToSet(s)
      BY <1>7
    <3> HIDE DEF n, s, t
    <3>3. Repeated(t) \subseteq Repeated(s)
      BY <3>1, <3>2, RepeatedMore
    <3> QED BY <3>3 DEF s, t
  <2>2. RepeatsAsItsFile(more, files)
    BY <1>3, <1>6, <2>1 DEF HitsIn, RepeatsAsItsFile
  <2> QED BY <1>3, <1>6, <2>2 DEF HitsIn, Limited
<1> HIDE DEF again
<1>8. ~again => [with EXCEPT ![i] = more] \in HitLists(F, files)
  BY <1>2, <1>6, <1>7, ReplaceHit DEF h
<1> QED BY <1>1, <1>2, <1>8

\* an item of the list of one of the files, with its file
Found(files, W) == [file : ToSet(files), item : W]

LEMMA InFilesType ==
  ASSUME NEW U, NEW files \in Seq(U), NEW W, NEW lists,
         \A i \in DOMAIN files : lists[i] \in Seq(W)
  PROVE  InFiles(files, lists) \in Seq(Found(files, W))
<1> DEFINE one(i) == [k \in DOMAIN lists[i] |->
                        [file |-> files[i], item |-> lists[i][k]]]
           ss == [i \in DOMAIN files |-> one(i)]
<1>1. DOMAIN files = 1 .. Len(files) /\ Len(files) \in Nat
  OBVIOUS
<1>2. ASSUME NEW i \in DOMAIN files
      PROVE  one(i) \in Seq(Found(files, W))
  <2>1. lists[i] \in Seq(W) /\ files[i] \in ToSet(files)
    BY DEF ToSet
  <2> DEFINE s == lists[i]
  <2> HIDE DEF s
  <2>2. /\ DOMAIN s = 1 .. Len(s) /\ Len(s) \in Nat
        /\ \A k \in DOMAIN s : s[k] \in W
    BY <2>1 DEF s
  <2>3. \A k \in DOMAIN s : [file |-> files[i], item |-> s[k]] \in Found(files, W)
    BY <2>1, <2>2 DEF Found
  <2>4. [k \in DOMAIN s |-> [file |-> files[i], item |-> s[k]]]
          \in [1 .. Len(s) -> Found(files, W)]
    BY <2>2, <2>3
  <2>5. one(i) \in [1 .. Len(s) -> Found(files, W)]
    BY <2>4 DEF s
  <2> HIDE DEF one
  <2> QED BY <2>2, <2>5
<1> HIDE DEF one
<1>3. /\ DOMAIN ss = 1 .. Len(files)
      /\ ss = [i \in 1 .. Len(files) |-> ss[i]]
      /\ \A i \in 1 .. Len(files) : ss[i] \in Seq(Found(files, W))
  BY <1>1, <1>2
<1> HIDE DEF ss
<1>4. FlattenSeq(ss) \in Seq(Found(files, W))
  BY <1>1, <1>3, FlattenEach
<1> QED BY <1>4 DEF InFiles, ss, one

LEMMA CallGraphContextType ==
  ASSUME NEW F, NEW files \in Seq(Files(F)), NEW all \in HitLists(F, files)
  PROVE  CallGraphContext(files, all) \in HitLists(F, files)
<1> DEFINE names == MatchedNames(files)
           named(e) == {e.caller.name, e.callee} \cap names # {}
           lists == [i \in DOMAIN files |-> files[i].analysis.edges]
           items == InFiles(files, lists)
           N == Len(items)
           T == HitLists(F, files)
           step(h, n) == IF ~named(items[n].item) THEN h
                         ELSE AddEdge(files, h, items[n].file, items[n].item)
           Loop(f) == [n \in 0 .. N |-> IF n = 0 THEN all
                                        ELSE IF ~named(items[n].item) THEN f[n - 1]
                                        ELSE AddEdge(files, f[n - 1], items[n].file,
                                                     items[n].item)]
           body == [n \in 1 .. N |-> [h \in T |-> step(h, n)]]
           result == CHOOSE g : g = Loop(g)
<1>1. items \in Seq(Found(files, Edges(F, Nat)))
  <2>1. \A i \in DOMAIN files : lists[i] \in Seq(Edges(F, Nat))
    <3> SUFFICES ASSUME NEW i \in DOMAIN files
                 PROVE  files[i].analysis.edges \in Seq(Edges(F, Nat))
      OBVIOUS
    <3> DEFINE L == 1 .. Len(files[i].lines)
    <3>1. files[i] \in Files(F)
      OBVIOUS
    <3>2. files[i].analysis.edges \in Seq(Edges(F, L)) /\ L \subseteq Nat
      BY <3>1, FileTypes
    <3> HIDE DEF L
    <3>3. Edges(F, L) \subseteq Edges(F, Nat)
      BY <3>2 DEF Edges
    <3> QED BY <3>2, <3>3
  <2> HIDE DEF lists
  <2> QED BY <2>1, InFilesType
<1> HIDE DEF items
<1>2. N \in Nat /\ all \in T
  BY <1>1
<1>3. \A n \in 1 .. N : \A h \in T : step(h, n) \in T
  <2>1. ASSUME NEW n \in 1 .. N
        PROVE  items[n].file \in ToSet(files) /\ items[n].item \in Edges(F, Nat)
    <3>1. items[n] \in Found(files, Edges(F, Nat))
      BY <1>1
    <3> QED BY <3>1 DEF Found
  <2>2. \A n \in 1 .. N : \A h \in T :
           AddEdge(files, h, items[n].file, items[n].item) \in T
    <3> HIDE DEF N
    <3> QED BY <2>1, AddEdgeType
  <2> HIDE DEF T, N, named
  <2> QED BY <2>2
<1>4. result = Loop(result)
  <2>1. body \in Bodies(N, T)
    <3> HIDE DEF N, T, step
    <3> QED BY <1>3 DEF Bodies
  <2>2. PICK f \in Values(N, T) : Loops(f, N, all, body)
    <3> HIDE DEF N, T, body
    <3> QED BY <1>2, <2>1, RecursionExists
  <2>3. f \in [0 .. N -> T] /\ f[0] = all
    BY <2>2 DEF Values, Loops
  <2>4. ASSUME NEW n \in 1 .. N
        PROVE  f[n] = step(f[n - 1], n)
    <3>1. n - 1 \in 0 .. N
      BY <1>2
    <3>2. f[n - 1] \in T
      BY <2>3, <3>1
    <3>3. f[n] = body[n][f[n - 1]]
      BY <2>2 DEF Loops
    <3> HIDE DEF N, T, step
    <3> QED BY <3>2, <3>3
  <2>5. f = Loop(f)
    <3>1. \A n \in 0 .. N : f[n] = IF n = 0 THEN all ELSE step(f[n - 1], n)
      <4> HIDE DEF step, T
      <4> QED BY <1>2, <2>3, <2>4
    <3> HIDE DEF N, named
    <3> QED BY <2>3, <3>1
  <2> HIDE DEF Loop
  <2> QED BY <2>5
<1>5. CallGraphContext(files, all) = result[N]
  BY DEF CallGraphContext, items, lists
<1> HIDE DEF result
<1>6. result[0] = all /\ \A n \in 1 .. N : result[n] = step(result[n - 1], n)
  <2>1. \A n \in 0 .. N : result[n] = IF n = 0 THEN all
                                      ELSE step(result[n - 1], n)
    <3> HIDE DEF N, named
    <3> QED BY <1>4
  <2> HIDE DEF step
  <2> QED BY <1>2, <2>1
<1> DEFINE G == {n \in 0 .. N : result[n] \in T}
<1>7. 0 \in G
  BY <1>2, <1>6
<1>8. ASSUME NEW n \in 1 .. N, n - 1 \in G
      PROVE  n \in G
  <2>1. n \in 0 .. N /\ result[n - 1] \in T
    BY <1>2, <1>8
  <2> HIDE DEF T, step
  <2> QED BY <1>3, <1>6, <2>1
<1>9. N \in G
  <2>1. N \in 0 .. N
    BY <1>2
  <2> HIDE DEF G, N
  <2> QED BY <1>2, <1>7, <1>8, <2>1, UpTo
<1> QED BY <1>5, <1>9

LEMMA ImplementationContextType ==
  ASSUME NEW F, NEW files \in Seq(Files(F)), NEW all \in HitLists(F, files)
  PROVE  ImplementationContext(files, all) \in HitLists(F, files)
<1> DEFINE types == RelevantTypes(all)
           relevant(r) == {<<r.type>>, <<r.interface>>} \cap types # {}
           lists == [i \in DOMAIN files |-> files[i].analysis.relations]
           items == InFiles(files, lists)
           N == Len(items)
           T == HitLists(F, files)
           step(h, n) == IF ~relevant(items[n].item) THEN h
                         ELSE AddRelation(files, h, items[n].file, items[n].item)
           Loop(f) == [n \in 0 .. N |-> IF n = 0 THEN all
                                        ELSE IF ~relevant(items[n].item) THEN f[n - 1]
                                        ELSE AddRelation(files, f[n - 1],
                                                         items[n].file,
                                                         items[n].item)]
           body == [n \in 1 .. N |-> [h \in T |-> step(h, n)]]
           result == CHOOSE g : g = Loop(g)
<1>1. items \in Seq(Found(files, Relations(Nat)))
  <2>1. \A i \in DOMAIN files : lists[i] \in Seq(Relations(Nat))
    <3> SUFFICES ASSUME NEW i \in DOMAIN files
                 PROVE  files[i].analysis.relations \in Seq(Relations(Nat))
      OBVIOUS
    <3> DEFINE L == 1 .. Len(files[i].lines)
    <3>1. files[i] \in Files(F)
      OBVIOUS
    <3>2. files[i].analysis.relations \in Seq(Relations(L)) /\ L \subseteq Nat
      BY <3>1, FileTypes
    <3> HIDE DEF L
    <3>3. Relations(L) \subseteq Relations(Nat)
      BY <3>2 DEF Relations
    <3> QED BY <3>2, <3>3
  <2> HIDE DEF lists
  <2> QED BY <2>1, InFilesType
<1> HIDE DEF items
<1>2. N \in Nat /\ all \in T
  BY <1>1
<1>3. \A n \in 1 .. N : \A h \in T : step(h, n) \in T
  <2>1. ASSUME NEW n \in 1 .. N
        PROVE  items[n].file \in ToSet(files) /\ items[n].item \in Relations(Nat)
    <3>1. items[n] \in Found(files, Relations(Nat))
      BY <1>1
    <3> QED BY <3>1 DEF Found
  <2>2. \A n \in 1 .. N : \A h \in T :
           AddRelation(files, h, items[n].file, items[n].item) \in T
    <3> HIDE DEF N
    <3> QED BY <2>1, AddRelationType
  <2> HIDE DEF T, N, relevant
  <2> QED BY <2>2
<1>4. result = Loop(result)
  <2>1. body \in Bodies(N, T)
    <3> HIDE DEF N, T, step
    <3> QED BY <1>3 DEF Bodies
  <2>2. PICK f \in Values(N, T) : Loops(f, N, all, body)
    <3> HIDE DEF N, T, body
    <3> QED BY <1>2, <2>1, RecursionExists
  <2>3. f \in [0 .. N -> T] /\ f[0] = all
    BY <2>2 DEF Values, Loops
  <2>4. ASSUME NEW n \in 1 .. N
        PROVE  f[n] = step(f[n - 1], n)
    <3>1. n - 1 \in 0 .. N
      BY <1>2
    <3>2. f[n - 1] \in T
      BY <2>3, <3>1
    <3>3. f[n] = body[n][f[n - 1]]
      BY <2>2 DEF Loops
    <3> HIDE DEF N, T, step
    <3> QED BY <3>2, <3>3
  <2>5. f = Loop(f)
    <3>1. \A n \in 0 .. N : f[n] = IF n = 0 THEN all ELSE step(f[n - 1], n)
      <4> HIDE DEF step, T
      <4> QED BY <1>2, <2>3, <2>4
    <3> HIDE DEF N, relevant
    <3> QED BY <2>3, <3>1
  <2> HIDE DEF Loop
  <2> QED BY <2>5
<1>5. ImplementationContext(files, all) = result[N]
  BY DEF ImplementationContext, items, lists
<1> HIDE DEF result
<1>6. result[0] = all /\ \A n \in 1 .. N : result[n] = step(result[n - 1], n)
  <2>1. \A n \in 0 .. N : result[n] = IF n = 0 THEN all
                                      ELSE step(result[n - 1], n)
    <3> HIDE DEF N, relevant
    <3> QED BY <1>4
  <2> HIDE DEF step
  <2> QED BY <1>2, <2>1
<1> DEFINE G == {n \in 0 .. N : result[n] \in T}
<1>7. 0 \in G
  BY <1>2, <1>6
<1>8. ASSUME NEW n \in 1 .. N, n - 1 \in G
      PROVE  n \in G
  <2>1. n \in 0 .. N /\ result[n - 1] \in T
    BY <1>2, <1>8
  <2> HIDE DEF T, step
  <2> QED BY <1>3, <1>6, <2>1
<1>9. N \in G
  <2>1. N \in 0 .. N
    BY <1>2
  <2> HIDE DEF G, N
  <2> QED BY <1>2, <1>7, <1>8, <2>1, UpTo
<1> QED BY <1>5, <1>9


-----------------------------------------------------------------------------
(* A file that matches the query.                                          *)

LEMMA LineOfType ==
  ASSUME NEW L, NEW U, NEW s \in Seq(U), \A x \in U : x.line \in L
  PROVE  LineOf(s) \in Seq(L)
<1>1. DOMAIN s = 1 .. Len(s) /\ Len(s) \in Nat /\ \A i \in DOMAIN s : s[i] \in U
  OBVIOUS
<1>2. LineOf(s) \in [1 .. Len(s) -> L]
  BY <1>1 DEF LineOf
<1> QED BY <1>1, <1>2

LEMMA ContentLinesType ==
  ASSUME NEW lines \in Seq(Lines), NEW terms
  PROVE  ContentLines(lines, terms) \in Seq(1 .. Len(lines))
<1> DEFINE L == 1 .. Len(lines)
           places == [n \in DOMAIN lines |-> n]
           found == Only(places,
                         {n \in DOMAIN lines :
                            ~lines[n].low /\ MatchesText(lines[n].words, terms)})
           keys == [i \in DOMAIN found |->
                      <<Score(lines[found[i]].words, terms)>>]
<1>1. DOMAIN lines = L /\ Len(lines) \in Nat
  OBVIOUS
<1>2. places \in Seq(L)
  <2>1. places \in [1 .. Len(lines) -> L]
    BY <1>1
  <2> HIDE DEF places
  <2> QED BY <1>1, <2>1
<1> HIDE DEF places, L
<1>3. found \in Seq(L)
  BY <1>2, OnlyType
<1> HIDE DEF found
<1>4. Ranked(found, keys) \in Seq(L)
  <2> HIDE DEF keys
  <2> QED BY <1>3, RankedType
<1> HIDE DEF keys
<1>5. Prefix(Ranked(found, keys), MaxLineNumbers) \in Seq(L)
  BY <1>4, PrefixType, LimitTypes
<1> QED BY <1>5 DEF ContentLines, keys, found, places, L

LEMMA PrimarySymbolType ==
  ASSUME NEW L, NEW symbols \in Seq(Symbols(L)), NEW words, NEW direct,
         NEW edges, NEW relations, NEW lines
  PROVE  PrimarySymbol(symbols, words, direct, edges, relations, lines)
           \in Seq(Symbols(L))
<1>1. \A keys : Prefix(Ranked(symbols, keys), 1) \in Seq(Symbols(L))
  BY RankedType, PrefixType
<1> QED BY <1>1 DEF PrimarySymbol

LEMMA SmallerTypes ==
  ASSUME NEW F, NEW L, L \subseteq Nat
  PROVE  /\ Seq(L) \subseteq Seq(Nat)
         /\ Seq(Symbols(L)) \subseteq Seq(Symbols(Nat))
         /\ Seq(Edges(F, L)) \subseteq Seq(Edges(F, Nat))
         /\ Seq(Relations(L)) \subseteq Seq(Relations(Nat))
         /\ Seq(Declarations(F, L)) \subseteq Seq(Declarations(F, Nat))
<1>1. /\ Symbols(L) \subseteq Symbols(Nat)
      /\ Edges(F, L) \subseteq Edges(F, Nat)
      /\ Relations(L) \subseteq Relations(Nat)
  BY DEF Symbols, Edges, Relations
<1>2. \A U, V : U \subseteq V => Seq(U) \subseteq Seq(V)
  OBVIOUS
<1>3. Declarations(F, L) \subseteq Declarations(F, Nat)
  BY <1>1, <1>2 DEF Declarations
<1> QED BY <1>1, <1>2, <1>3

LEMMA QueryTermsType ==
  ASSUME NEW query \in Seq(Seq(Names))
  PROVE  QueryTerms(query) \in Seq(Names)
<1> DEFINE N == Len(query)
           T == Seq(Names)
           words(n) == Only(query[n], ToSet(query[n]) \ StopTerms)
           step(t, n) == IF Len(t) >= MaxTerms THEN t
                         ELSE Distinct(t \o words(n))
           Loop(f) == [n \in 0 .. N |->
                         IF n = 0 THEN <<>>
                         ELSE IF Len(f[n - 1]) >= MaxTerms THEN f[n - 1]
                         ELSE Distinct(f[n - 1] \o words(n))]
           body == [n \in 1 .. N |-> [t \in T |-> step(t, n)]]
           terms == CHOOSE g : g = Loop(g)
<1>1. N \in Nat /\ <<>> \in T
  OBVIOUS
<1>2. \A n \in 1 .. N : \A t \in T : step(t, n) \in T
  <2> SUFFICES ASSUME NEW n \in 1 .. N, NEW t \in T
               PROVE  Distinct(t \o words(n)) \in T
    BY DEF step
  <2>1. query[n] \in Seq(Names)
    OBVIOUS
  <2>2. words(n) \in Seq(Names)
    BY <2>1, OnlyType
  <2> HIDE DEF words
  <2>3. t \o words(n) \in Seq(Names)
    BY <2>2
  <2> QED BY <2>3, DistinctType
<1> HIDE DEF words
<1>3. terms = Loop(terms)
  <2>1. body \in Bodies(N, T)
    <3> HIDE DEF N, T, step
    <3> QED BY <1>2 DEF Bodies
  <2>2. PICK f \in Values(N, T) : Loops(f, N, <<>>, body)
    <3> HIDE DEF N, T, body
    <3> QED BY <1>1, <2>1, RecursionExists
  <2>3. f \in [0 .. N -> T] /\ f[0] = <<>>
    BY <2>2 DEF Values, Loops
  <2>4. ASSUME NEW n \in 1 .. N
        PROVE  f[n] = step(f[n - 1], n)
    <3>1. n - 1 \in 0 .. N
      BY <1>1
    <3>2. f[n - 1] \in T
      BY <2>3, <3>1
    <3>3. f[n] = body[n][f[n - 1]]
      BY <2>2 DEF Loops
    <3> HIDE DEF N, T, step
    <3> QED BY <3>2, <3>3
  <2>5. f = Loop(f)
    <3>1. \A n \in 0 .. N : f[n] = IF n = 0 THEN <<>> ELSE step(f[n - 1], n)
      <4> HIDE DEF step, T
      <4> QED BY <1>1, <2>3, <2>4
    <3> HIDE DEF N
    <3> QED BY <2>3, <3>1
  <2> HIDE DEF Loop
  <2> QED BY <2>5
<1>4. QueryTerms(query) = terms[N]
  BY DEF QueryTerms, words
<1> HIDE DEF terms
<1>5. terms[0] = <<>> /\ \A n \in 1 .. N : terms[n] = step(terms[n - 1], n)
  <2>1. \A n \in 0 .. N : terms[n] = IF n = 0 THEN <<>>
                                     ELSE step(terms[n - 1], n)
    <3> HIDE DEF N
    <3> QED BY <1>3
  <2> HIDE DEF step
  <2> QED BY <1>1, <2>1
<1> DEFINE G == {n \in 0 .. N : terms[n] \in T}
<1>6. 0 \in G
  <2>1. 0 \in 0 .. N
    BY <1>1
  <2> HIDE DEF T, N
  <2> QED BY <1>1, <1>5, <2>1
<1>7. ASSUME NEW n \in 1 .. N, n - 1 \in G
      PROVE  n \in G
  <2>1. n \in 0 .. N /\ terms[n - 1] \in T
    BY <1>1, <1>7
  <2> HIDE DEF T, step
  <2> QED BY <1>2, <1>5, <2>1
<1>8. N \in G
  <2>1. N \in 0 .. N
    BY <1>1
  <2> HIDE DEF G, N
  <2> QED BY <1>1, <1>6, <1>7, <2>1, UpTo
<1> QED BY <1>4, <1>8

LEMMA MatchFileType ==
  ASSUME asked \in Inspections,
         NEW F, NEW files \in Seq(Files(F)), NEW f \in ToSet(files),
         \A g \in ToSet(files) : g.file = f.file => Len(g.lines) = Len(f.lines)
  PROVE  MatchFile(f) # <<>> => MatchFile(f)[1] \in HitsIn(F, files)
<1> DEFINE L == 1 .. Len(f.lines)
           a == f.analysis
           matched == Only(QueryTerms(asked.query),
                           UNION {f.lines[n].words : n \in DOMAIN f.lines})
           words == ToSet(matched)
           symbols == Only(a.symbols, {s \in ToSet(a.symbols) :
                                         MatchesText(SymbolWords(s), Terms)})
           edges == Only(a.edges, {e \in ToSet(a.edges) :
                                     MatchesText(EdgeWords(e), Terms)})
           relations == Only(a.relations,
                             {r \in ToSet(a.relations) :
                                MatchesText(RelationWords(r), Terms)})
           content == ContentLines(f.lines, words)
           structural == MergeLineNumbers(<<LineOf(symbols), LineOf(edges),
                                            LineOf(relations)>>)
           candidates == MergeLineNumbers(<<structural, content>>)
           primary == PrimarySymbol(a.symbols, words, symbols, edges, relations,
                                    candidates)
           scope == SymbolScopeRange(f.language, f.lines, primary[1])
           merged == MergeLineNumbers(<<content, structural>>)
           scoped == IF primary = <<>> THEN <<>>
                     ELSE Only(merged, scope[1] .. scope[2])
           both == MergeLineNumbers(<<scoped, candidates>>)
           lines == Prefix(both, MaxLineNumbers)
           range == LineRange(f.language, f.lines, lines, primary)
           some == Prefix(symbols, MaxSymbols)
           calls == Prefix(edges, MaxCallEdges)
           related == Prefix(relations, MaxSymbols)
           kept == Prefix(matched, MaxMatchedTerms)
           hit == [file |-> f.file, words |-> kept, lines |-> lines,
                   primary |-> primary, range |-> range, symbols |-> some,
                   edges |-> calls, relations |-> related]
<1>1. MatchFile(f) \in {<<>>, <<hit>>}
  BY DEF MatchFile
<1>2. /\ f \in Files(F) /\ f.lines \in Seq(Lines) /\ f.file \in F
      /\ a.symbols \in Seq(Symbols(L)) /\ a.edges \in Seq(Edges(F, L))
      /\ a.relations \in Seq(Relations(L)) /\ L \subseteq Nat
      /\ Len(f.lines) \in Nat
  <2>1. f \in Files(F)
    BY DEF ToSet
  <2> QED BY <2>1, FileTypes
<1>3. kept \in Seq(Names \cup {"context"}) /\ Len(kept) \in 0 .. MaxMatchedTerms
  <2>1. matched \in Seq(Names)
    <3>1. QueryTerms(asked.query) \in Seq(Names)
      BY QueryTermsType, InspectionsAssumption
    <3> QED BY <3>1, OnlyType
  <2> HIDE DEF matched
  <2> QED BY <2>1, PrefixType, LimitTypes
<1> HIDE DEF words, kept, matched
<1>4. content \in Seq(L)
  BY <1>2, ContentLinesType
<1> HIDE DEF content, L
<1>5. Repeated(CallKeys(calls)) \subseteq Repeated(CallKeys(a.edges))
  <2> DEFINE S == {e \in ToSet(a.edges) : MatchesText(EdgeWords(e), Terms)}
  <2>1. calls = Prefix(Only(a.edges, S), MaxCallEdges)
    OBVIOUS
  <2> HIDE DEF S, calls
  <2> QED BY <1>2, <2>1, SelectedRepeat, LimitTypes
<1>6. Repeated(RelationKeys(related)) \subseteq Repeated(RelationKeys(a.relations))
  <2> DEFINE S == {r \in ToSet(a.relations) :
                     MatchesText(RelationWords(r), Terms)}
  <2>1. related = Prefix(Only(a.relations, S), MaxSymbols)
    OBVIOUS
  <2> HIDE DEF S, related
  <2> QED BY <1>2, <2>1, SelectedRepeat, LimitTypes
<1>7. /\ symbols \in Seq(Symbols(L)) /\ edges \in Seq(Edges(F, L))
      /\ relations \in Seq(Relations(L))
  BY <1>2, OnlyType
<1> HIDE DEF symbols, edges, relations
<1>8. structural \in Seq(L)
  <2>1. /\ LineOf(symbols) \in Seq(L) /\ LineOf(edges) \in Seq(L)
        /\ LineOf(relations) \in Seq(L)
    <3>1. /\ \A x \in Symbols(L) : x.line \in L
          /\ \A x \in Edges(F, L) : x.line \in L
          /\ \A x \in Relations(L) : x.line \in L
      BY DEF Symbols, Edges, Relations
    <3> QED BY <1>7, <3>1, LineOfType
  <2>2. <<LineOf(symbols), LineOf(edges), LineOf(relations)>> \in Seq(Seq(L))
    BY <2>1
  <2> QED BY <2>2, MergeLineNumbersType
<1> HIDE DEF structural
<1>9. candidates \in Seq(L) /\ merged \in Seq(L)
  <2>1. <<structural, content>> \in Seq(Seq(L))
        /\ <<content, structural>> \in Seq(Seq(L))
    BY <1>4, <1>8
  <2> QED BY <2>1, MergeLineNumbersType
<1> HIDE DEF candidates, merged
<1>10. primary \in Seq(Symbols(L))
  BY <1>2, PrimarySymbolType
<1> HIDE DEF primary, scope
<1>11. scoped \in Seq(L)
  BY <1>9, OnlyType
<1> HIDE DEF scoped
<1>12. both \in Seq(L)
  <2>1. <<scoped, candidates>> \in Seq(Seq(L))
    BY <1>9, <1>11
  <2> QED BY <2>1, MergeLineNumbersType
<1> HIDE DEF both
<1>13. lines \in Seq(L) /\ Len(lines) \in 0 .. MaxLineNumbers
  BY <1>12, PrefixType, LimitTypes
<1> HIDE DEF lines
<1>14. Shows(range, lines, primary, Len(f.lines))
  BY <1>2, <1>10, <1>13, LineRangeShows DEF L
<1> HIDE DEF range
<1>15. /\ some \in Seq(Symbols(L)) /\ Len(some) \in 0 .. MaxSymbols
       /\ calls \in Seq(Edges(F, L)) /\ Len(calls) \in 0 .. MaxCallEdges
       /\ related \in Seq(Relations(L))
  BY <1>7, PrefixType, LimitTypes
<1> HIDE DEF some, calls, related
<1>16. /\ hit.file = f.file /\ hit.words = kept /\ hit.lines = lines
       /\ hit.primary = primary /\ hit.range = range /\ hit.symbols = some
       /\ hit.edges = calls /\ hit.relations = related
  OBVIOUS
<1>17. hit \in Hits(F)
  <2>1. /\ lines \in Seq(Nat) /\ primary \in Seq(Symbols(Nat))
        /\ some \in Seq(Symbols(Nat)) /\ calls \in Seq(Edges(F, Nat))
        /\ related \in Seq(Relations(Nat))
    BY <1>2, <1>10, <1>13, <1>15, SmallerTypes
  <2>2. range \in Nat \X Nat
    BY <1>14 DEF Shows
  <2> QED BY <1>2, <1>3, <2>1, <2>2 DEF Hits
<1> HIDE DEF hit
<1>18. Limited(hit)
  <2>1. MaxSymbols <= MaxOf(MaxSymbols, ContextSymbols)
        /\ MaxLineNumbers <= MaxOf(1, MaxLineNumbers)
        /\ MaxMatchedTerms <= MaxOf(1, MaxMatchedTerms)
        /\ MaxOf(1, MaxMatchedTerms) \in Nat
        /\ MaxOf(MaxSymbols, ContextSymbols) \in Nat
        /\ MaxOf(1, MaxLineNumbers) \in Nat
    BY LimitTypes DEF MaxOf
  <2>2. /\ Len(some) <= MaxOf(MaxSymbols, ContextSymbols)
        /\ Len(lines) <= MaxOf(1, MaxLineNumbers) /\ Len(calls) <= MaxCallEdges
        /\ Len(kept) <= MaxOf(1, MaxMatchedTerms)
    BY <1>3, <1>13, <1>15, <2>1, LimitTypes
  <2> QED BY <1>16, <2>2 DEF Limited
<1>19. RepeatsAsItsFile(hit, files)
  BY <1>16, <1>5, <1>6 DEF RepeatsAsItsFile
<1>20. hit \in HitsIn(F, files)
  BY <1>14, <1>16, <1>17, <1>18, <1>19 DEF HitsIn
<1> QED BY <1>1, <1>20

LEMMA RankType ==
  ASSUME NEW F, NEW files, NEW all \in HitLists(F, files), NEW keys, NEW n \in Nat
  PROVE  LET best == Prefix(Ranked(all, keys), n)
         IN  best \in HitLists(F, files) /\ Len(best) <= n
<1> DEFINE G == HitsIn(F, files)
           ranked == Ranked(all, keys)
           best == Prefix(ranked, n)
<1>1. all \in Seq(G) /\ OfOneFileEach(all)
  BY DEF HitLists
<1> HIDE DEF G
<1>2. ranked \in Seq(G)
  BY <1>1, RankedType
<1>3. OfOneFileEach(ranked)
  <2>1. PICK p : Permutes(p, all, ranked)
    BY <1>1, RankedPermutes
  <2> HIDE DEF ranked
  <2>2. ASSUME NEW i \in DOMAIN ranked, NEW j \in DOMAIN ranked,
               ranked[i].file = ranked[j].file
        PROVE  i = j
    <3>1. /\ i \in DOMAIN all /\ j \in DOMAIN all
          /\ p[i] \in DOMAIN all /\ p[j] \in DOMAIN all
          /\ ranked[i] = all[p[i]] /\ ranked[j] = all[p[j]]
      BY <2>1 DEF Permutes
    <3>2. p[i] = p[j]
      BY <1>1, <2>2, <3>1 DEF OfOneFileEach
    <3> QED BY <2>1, <3>1, <3>2 DEF Permutes
  <2> QED BY <2>2 DEF OfOneFileEach
<1> HIDE DEF ranked
<1>4. /\ best \in Seq(G) /\ Len(best) \in 0 .. n
      /\ DOMAIN best \subseteq DOMAIN ranked
      /\ \A i \in DOMAIN best : best[i] = ranked[i]
  BY <1>2, PrefixType
<1> HIDE DEF best
<1>5. OfOneFileEach(best)
  <2>1. ASSUME NEW i \in DOMAIN best, NEW j \in DOMAIN best,
               best[i].file = best[j].file
        PROVE  i = j
    <3>1. i \in DOMAIN ranked /\ j \in DOMAIN ranked
          /\ best[i] = ranked[i] /\ best[j] = ranked[j]
      BY <1>4
    <3> QED BY <1>3, <2>1, <3>1 DEF OfOneFileEach
  <2> QED BY <2>1 DEF OfOneFileEach
<1>6. best \in HitLists(F, files) /\ Len(best) <= n
  BY <1>4, <1>5 DEF HitLists, G
<1> QED BY <1>6 DEF best, ranked

-----------------------------------------------------------------------------
(* The inspection.                                                         *)

\* the files that inspect may look into
Allowed == {e.target : e \in {e \in ToSet(asked.entries) :
                                e.inside /\ e.target \notin Denied
                                  /\ e.size = "small"}}

FilesInv ==
    /\ scanned \in Seq(Files(Allowed))
    /\ \A f \in ToSet(scanned) :
          \E e \in ToSet(asked.entries) :
             f.file = e.target /\ f.language = e.language /\ f.lines = e.lines
    /\ \A f \in ToSet(scanned) :
          f.language \in {"java", "go"} =>
            EdgesEnclosed(f.language, f.lines, f.analysis)

HitsInv ==
    /\ hits \in HitLists(Allowed, scanned)
    /\ phase \in {"start", "scan"} => hits = <<>>
    /\ phase = "done" => Len(hits) <= MaxOf(1, asked.maxHits)

InspectionInv ==
    /\ asked \in Inspections
    /\ next \in Nat \ {0}
    /\ FilesInv
    /\ HitsInv

LEMMA EntryTypes ==
  ASSUME asked \in Inspections, NEW e \in ToSet(asked.entries)
  PROVE  /\ e \in Entries /\ e.lines \in Seq(Lines)
         /\ CallsAreInFile(e.lines)
<1>1. asked.entries \in Seq(Entries)
  BY InspectionsAssumption
<1>2. e \in Entries
  BY <1>1 DEF ToSet
<1>3. e.lines \in Seq(Lines)
  BY <1>2 DEF Entries
<1>4. CallsAreInFile(e.lines)
  BY InspectionsAssumption
<1> QED BY <1>2, <1>3, <1>4

\* what a path leads to is read as the same lines whatever the path
LEMMA SameLines ==
  ASSUME asked \in Inspections, FilesInv,
         NEW f \in ToSet(scanned), NEW g \in ToSet(scanned), g.file = f.file
  PROVE  Len(g.lines) = Len(f.lines)
<1>1. PICK d \in ToSet(asked.entries) : f.file = d.target /\ f.lines = d.lines
  BY DEF FilesInv
<1>2. PICK e \in ToSet(asked.entries) : g.file = e.target /\ g.lines = e.lines
  BY DEF FilesInv
<1> QED BY <1>1, <1>2, InspectionsAssumption

LEMMA InitInv ==
  ASSUME Init
  PROVE  InspectionInv
<1>1. /\ asked \in Inspections /\ phase = "start" /\ next = 1
      /\ scanned = <<>> /\ hits = <<>>
  BY DEF Init
<1>2. FilesInv
  BY <1>1 DEF FilesInv, ToSet
<1>3. HitsInv
  BY <1>1 DEF HitsInv, HitLists, OfOneFileEach
<1> QED BY <1>1, <1>2, <1>3 DEF InspectionInv

\* the hits are still of the files
LEMMA HitsKept ==
  ASSUME InspectionInv, asked' = asked, scanned' = scanned, hits' = hits,
         phase' \in {"start", "scan"} => phase \in {"start", "scan"},
         phase' = "done" => hits = <<>> \/ phase = "done"
  PROVE  FilesInv' /\ HitsInv'
<1>1. Allowed' = Allowed
  BY DEF Allowed
<1>2. FilesInv'
  BY <1>1 DEF InspectionInv, FilesInv
<1>3. hits = <<>> => Len(hits) <= MaxOf(1, asked.maxHits)
  <2>1. asked.maxHits \in Int
    BY InspectionsAssumption DEF InspectionInv
  <2> QED BY <2>1 DEF MaxOf
<1>4. HitsInv'
  BY <1>1, <1>3 DEF InspectionInv, HitsInv
<1> QED BY <1>2, <1>4

LEMMA ScanFileInv ==
  ASSUME InspectionInv, ScanFile
  PROVE  InspectionInv'
<1> DEFINE entry == asked.entries[next]
           f == [file |-> entry.target, language |-> entry.language,
                 lines |-> entry.lines, score |-> entry.score,
                 analysis |-> Analyze(entry.language, entry.lines)]
           L == 1 .. Len(entry.lines)
<1>1. /\ phase = "scan" /\ next <= Len(asked.entries) /\ MayRead(entry)
      /\ scanned' = IF entry.size # "small" THEN scanned
                    ELSE Append(scanned, f)
      /\ next' = next + 1
      /\ asked' = asked /\ phase' = phase /\ hits' = hits
  BY DEF ScanFile
<1>2. /\ asked \in Inspections /\ next \in Nat \ {0} /\ FilesInv /\ HitsInv
  BY DEF InspectionInv
<1>3. asked' \in Inspections /\ next' \in Nat \ {0}
  BY <1>1, <1>2
<1>4. CASE entry.size # "small"
  <2>1. scanned' = scanned
    BY <1>1, <1>4
  <2>2. FilesInv' /\ HitsInv'
    BY <1>1, <2>1, HitsKept
  <2> QED BY <1>3, <2>2 DEF InspectionInv
<1>5. CASE entry.size = "small"
  <2>1. entry \in ToSet(asked.entries)
    <3>1. asked.entries \in Seq(Entries)
      BY <1>2, InspectionsAssumption
    <3>2. next \in DOMAIN asked.entries
      BY <1>1, <1>2, <3>1
    <3> QED BY <3>2 DEF ToSet
  <2>2. /\ entry \in Entries /\ entry.lines \in Seq(Lines)
        /\ CallsAreInFile(entry.lines)
    BY <1>2, <2>1, EntryTypes
  <2>3. entry.target \in Allowed
    BY <1>1, <1>5, <2>1 DEF Allowed, MayRead
  <2> DEFINE a == Analyze(entry.language, entry.lines)
  <2>4. /\ a \in Analyses(Allowed, L)
        /\ entry.language \in {"java", "go"} =>
             EdgesEnclosed(entry.language, entry.lines, a)
    BY <2>2, AnalyzeType DEF Braced
  <2>5. /\ f.file = entry.target /\ f.language = entry.language
        /\ f.lines = entry.lines /\ f.analysis = a
    OBVIOUS
  <2>6. a \in Analyses(Allowed, Nat)
    <3>1. L \subseteq Nat
      BY <2>2
    <3> HIDE DEF L, a
    <3>2. /\ Seq(Symbols(L)) \subseteq Seq(Symbols(Nat))
          /\ Seq(Edges(Allowed, L)) \subseteq Seq(Edges(Allowed, Nat))
          /\ Seq(Relations(L)) \subseteq Seq(Relations(Nat))
          /\ Seq(Declarations(Allowed, L)) \subseteq Seq(Declarations(Allowed, Nat))
      BY <3>1, SmallerTypes
    <3> QED BY <2>4, <3>2 DEF Analyses
  <2>7. f \in Files(Allowed)
    <3>1. entry.language \in Names /\ entry.score \in Nat
      BY <2>2 DEF Entries
    <3> HIDE DEF a, entry
    <3>2. f = [file |-> entry.target, language |-> entry.language,
               lines |-> entry.lines, score |-> entry.score, analysis |-> a]
      BY DEF a
    <3> HIDE DEF f
    <3>3. f \in [file : Allowed, language : Names, lines : Seq(Lines),
                 score : Nat, analysis : Analyses(Allowed, Nat)]
      BY <2>2, <2>3, <2>6, <3>1, <3>2
    <3> QED BY <2>4, <2>5, <3>3 DEF Files
  <2> HIDE DEF f, a, entry
  <2>8. /\ scanned' = Append(scanned, f) /\ scanned \in Seq(Files(Allowed))
        /\ Allowed' = Allowed
    BY <1>1, <1>2, <1>5 DEF Allowed, FilesInv
  <2>9. ToSet(scanned') = ToSet(scanned) \cup {f}
    BY <2>7, <2>8, ToSetAppend
  <2>10. FilesInv'
    <3>1. scanned' \in Seq(Files(Allowed))
      BY <2>7, <2>8
    <3>2. \A g \in ToSet(scanned)' :
             \E e \in ToSet(asked.entries) :
                g.file = e.target /\ g.language = e.language /\ g.lines = e.lines
      BY <1>2, <2>1, <2>5, <2>9 DEF FilesInv
    <3>3. \A g \in ToSet(scanned)' :
             g.language \in {"java", "go"} =>
               EdgesEnclosed(g.language, g.lines, g.analysis)
      BY <1>2, <2>4, <2>5, <2>9 DEF FilesInv
    <3> QED BY <1>1, <2>8, <3>1, <3>2, <3>3 DEF FilesInv
  <2>11. HitsInv'
    <3>1. hits' = <<>> /\ phase' = "scan"
      BY <1>1, <1>2 DEF HitsInv
    <3> QED BY <3>1 DEF HitsInv, HitLists, OfOneFileEach
  <2> QED BY <1>3, <2>10, <2>11 DEF InspectionInv
<1> QED BY <1>4, <1>5

Resolved(f, files) ==
    [f EXCEPT !.analysis.edges =
       [k \in DOMAIN @ |-> ResolveEdge(files, f.file, @[k])]]

LEMMA ResolvedType ==
  ASSUME NEW F, NEW files \in Seq(Files(F)), NEW f \in Files(F)
  PROVE  LET g == Resolved(f, files)
         IN  /\ g \in Files(F) /\ g.file = f.file
             /\ g.language = f.language /\ g.lines = f.lines
             /\ EdgesEnclosed(f.language, f.lines, f.analysis)
                  => EdgesEnclosed(g.language, g.lines, g.analysis)
<1> DEFINE L == 1 .. Len(f.lines)
           a == f.analysis
           edges == [k \in DOMAIN a.edges |->
                       ResolveEdge(files, f.file, a.edges[k])]
           b == [a EXCEPT !.edges = edges]
           g == [f EXCEPT !.analysis = b]
<1>1. /\ a \in Analyses(F, L) /\ a.edges \in Seq(Edges(F, L)) /\ L \subseteq Nat
  <2>1. a \in Analyses(F, L) /\ L \subseteq Nat
    BY FileTypes DEF Files
  <2> QED BY <2>1, FileTypes
<1>2. f \in [file : F, language : Names, lines : Seq(Lines), score : Nat,
             analysis : Analyses(F, Nat)]
  BY DEF Files
<1>3. Resolved(f, files) = g
  BY <1>1, <1>2 DEF Resolved, Analyses
<1> HIDE DEF L
<1>4. \A k \in DOMAIN a.edges :
         /\ edges[k] \in Edges(F, L) /\ edges[k].caller = a.edges[k].caller
         /\ edges[k].line = a.edges[k].line
  <2> SUFFICES ASSUME NEW k \in DOMAIN a.edges
               PROVE  /\ edges[k] \in Edges(F, L)
                      /\ edges[k].caller = a.edges[k].caller
                      /\ edges[k].line = a.edges[k].line
    OBVIOUS
  <2> DEFINE e == a.edges[k]
  <2>1. e \in Edges(F, L) /\ edges[k] = ResolveEdge(files, f.file, e)
    BY <1>1
  <2> HIDE DEF e, edges
  <2>2. LET r == ResolveEdge(files, f.file, e)
        IN  r \in Edges(F, L) /\ r.caller = e.caller /\ r.line = e.line
    BY <2>1, ResolveEdgeType
  <2> QED BY <2>1, <2>2 DEF e
<1>5. edges \in Seq(Edges(F, L)) /\ DOMAIN edges = DOMAIN a.edges
  <2>1. DOMAIN a.edges = 1 .. Len(a.edges) /\ Len(a.edges) \in Nat
    BY <1>1
  <2>2. DOMAIN edges = DOMAIN a.edges
    OBVIOUS
  <2>3. edges \in [1 .. Len(a.edges) -> Edges(F, L)]
    BY <1>4, <2>1
  <2> HIDE DEF edges
  <2> QED BY <2>1, <2>2, <2>3
<1> HIDE DEF edges
<1>6. b \in Analyses(F, L) /\ b.edges = edges /\ b.symbols = a.symbols
  <2> HIDE DEF a
  <2> QED BY <1>1, <1>5 DEF Analyses
<1>7. b \in Analyses(F, Nat)
  <2>1. edges \in Seq(Edges(F, Nat))
    BY <1>1, <1>5, SmallerTypes
  <2>2. a \in Analyses(F, Nat)
    BY <1>2
  <2> HIDE DEF a
  <2> QED BY <2>1, <2>2 DEF Analyses
<1> HIDE DEF b
<1>8. /\ g \in Files(F) /\ g.file = f.file /\ g.language = f.language
      /\ g.lines = f.lines /\ g.analysis = b
  <2>1. /\ g \in [file : F, language : Names, lines : Seq(Lines), score : Nat,
                  analysis : Analyses(F, Nat)]
        /\ g.file = f.file /\ g.language = f.language
        /\ g.lines = f.lines /\ g.analysis = b
    BY <1>2, <1>7
  <2> HIDE DEF g
  <2> QED BY <1>6, <2>1 DEF Files, L
<1> HIDE DEF g
<1>9. EdgesEnclosed(f.language, f.lines, a) => EdgesEnclosed(f.language, f.lines, b)
  <2> SUFFICES ASSUME EdgesEnclosed(f.language, f.lines, a), NEW e \in ToSet(edges)
               PROVE  \E m \in 1 .. e.line :
                         Encloses(f.language, f.lines, a.symbols, e.caller, m, e.line)
    BY <1>6 DEF EdgesEnclosed
  <2>1. PICK k \in DOMAIN a.edges : e = edges[k]
    BY <1>5 DEF ToSet
  <2>2. /\ a.edges[k] \in ToSet(a.edges) /\ e.caller = a.edges[k].caller
        /\ e.line = a.edges[k].line
    BY <1>4, <2>1 DEF ToSet
  <2> QED BY <2>2 DEF EdgesEnclosed
<1> QED BY <1>3, <1>8, <1>9

LEMMA ResolveInv ==
  ASSUME InspectionInv, ResolveCrossModuleSymbols
  PROVE  InspectionInv'
<1> DEFINE resolved == [i \in DOMAIN scanned |-> Resolved(scanned[i], scanned)]
<1>1. /\ phase = "scan" /\ phase' = "match" /\ next' = 1
      /\ scanned' = resolved /\ asked' = asked /\ hits' = hits
  BY DEF ResolveCrossModuleSymbols, Resolved
<1>2. /\ asked \in Inspections /\ FilesInv /\ HitsInv
      /\ scanned \in Seq(Files(Allowed))
  BY DEF InspectionInv, FilesInv
<1>3. ASSUME NEW i \in DOMAIN scanned
      PROVE  LET f == scanned[i]
                 g == Resolved(f, scanned)
             IN  /\ f \in ToSet(scanned)
                 /\ g \in Files(Allowed) /\ g.file = f.file
                 /\ g.language = f.language /\ g.lines = f.lines
                 /\ EdgesEnclosed(f.language, f.lines, f.analysis)
                      => EdgesEnclosed(g.language, g.lines, g.analysis)
  <2> DEFINE f == scanned[i]
  <2>1. f \in Files(Allowed) /\ f \in ToSet(scanned)
    BY <1>2 DEF ToSet
  <2> HIDE DEF f
  <2> QED BY <1>2, <2>1, ResolvedType DEF f
<1>4. resolved \in Seq(Files(Allowed)) /\ DOMAIN resolved = DOMAIN scanned
  <2>1. DOMAIN scanned = 1 .. Len(scanned) /\ Len(scanned) \in Nat
    BY <1>2
  <2>2. resolved \in [1 .. Len(scanned) -> Files(Allowed)]
    BY <1>3, <2>1
  <2>3. DOMAIN resolved = DOMAIN scanned
    OBVIOUS
  <2> HIDE DEF resolved
  <2> QED BY <2>1, <2>2, <2>3
<1>5. \A g \in ToSet(resolved) : \E f \in ToSet(scanned) :
         /\ g.file = f.file /\ g.language = f.language /\ g.lines = f.lines
         /\ EdgesEnclosed(f.language, f.lines, f.analysis)
              => EdgesEnclosed(g.language, g.lines, g.analysis)
  <2> SUFFICES ASSUME NEW g \in ToSet(resolved)
               PROVE  \E f \in ToSet(scanned) :
                         /\ g.file = f.file /\ g.language = f.language
                         /\ g.lines = f.lines
                         /\ EdgesEnclosed(f.language, f.lines, f.analysis)
                              => EdgesEnclosed(g.language, g.lines, g.analysis)
    OBVIOUS
  <2>1. PICK i \in DOMAIN scanned : g = resolved[i]
    BY <1>4 DEF ToSet
  <2>2. g = Resolved(scanned[i], scanned)
    BY <2>1
  <2> HIDE DEF resolved
  <2> QED BY <1>3, <2>1, <2>2
<1>6. Allowed' = Allowed
  BY <1>1 DEF Allowed
<1> HIDE DEF resolved
<1>7. FilesInv'
  <2>1. scanned' \in Seq(Files(Allowed))
    BY <1>1, <1>4
  <2>2. \A g \in ToSet(scanned)' :
           \E e \in ToSet(asked.entries) :
              g.file = e.target /\ g.language = e.language /\ g.lines = e.lines
    BY <1>1, <1>2, <1>5 DEF FilesInv
  <2>3. \A g \in ToSet(scanned)' :
           g.language \in {"java", "go"} =>
             EdgesEnclosed(g.language, g.lines, g.analysis)
    BY <1>1, <1>2, <1>5 DEF FilesInv
  <2> QED BY <1>1, <1>6, <2>1, <2>2, <2>3 DEF FilesInv
<1>8. HitsInv'
  <2>1. hits' = <<>> /\ phase' = "match"
    BY <1>1, <1>2 DEF HitsInv
  <2> QED BY <2>1 DEF HitsInv, HitLists, OfOneFileEach
<1> QED BY <1>1, <1>2, <1>7, <1>8 DEF InspectionInv

\* the hits change, the files do not
LEMMA HitsChange ==
  ASSUME InspectionInv, asked' = asked, scanned' = scanned,
         next' \in Nat \ {0},
         hits' \in HitLists(Allowed, scanned),
         phase' \notin {"start", "scan"},
         phase' = "done" => Len(hits') <= MaxOf(1, asked.maxHits)
  PROVE  InspectionInv'
<1>1. Allowed' = Allowed
  BY DEF Allowed
<1>2. FilesInv'
  BY <1>1 DEF InspectionInv, FilesInv
<1>3. HitsInv'
  BY <1>1 DEF HitsInv
<1> QED BY <1>2, <1>3 DEF InspectionInv

LEMMA MatchInv ==
  ASSUME InspectionInv, MatchScannedFile
  PROVE  InspectionInv'
<1> DEFINE f == scanned[next]
           hit == MatchFile(f)
<1>1. /\ phase = "match" /\ next <= Len(scanned)
      /\ hits' = IF hit = <<>> THEN hits ELSE PutHit(hits, hit[1])
      /\ next' = next + 1 /\ asked' = asked /\ scanned' = scanned
      /\ phase' = phase
  BY DEF MatchScannedFile
<1>2. /\ asked \in Inspections /\ next \in Nat \ {0} /\ FilesInv
      /\ scanned \in Seq(Files(Allowed)) /\ hits \in HitLists(Allowed, scanned)
  BY DEF InspectionInv, FilesInv, HitsInv
<1>3. f \in ToSet(scanned)
  <2>1. next \in DOMAIN scanned
    BY <1>1, <1>2
  <2> QED BY <2>1 DEF ToSet
<1> HIDE DEF f
<1>4. \A g \in ToSet(scanned) : g.file = f.file => Len(g.lines) = Len(f.lines)
  BY <1>2, <1>3, SameLines
<1>5. hit # <<>> => hit[1] \in HitsIn(Allowed, scanned)
  BY <1>2, <1>3, <1>4, MatchFileType
<1> HIDE DEF hit
<1>6. hits' \in HitLists(Allowed, scanned)
  BY <1>1, <1>2, <1>5, PutHitType
<1> QED BY <1>1, <1>2, <1>6, HitsChange

LEMMA ContextInv ==
  ASSUME InspectionInv, AddCallGraphContext \/ AddImplementationContext
  PROVE  InspectionInv'
<1>1. /\ next \in Nat \ {0} /\ scanned \in Seq(Files(Allowed))
      /\ hits \in HitLists(Allowed, scanned)
  BY DEF InspectionInv, FilesInv, HitsInv
<1>2. CASE AddCallGraphContext
  <2>1. /\ hits' = CallGraphContext(scanned, hits)
        /\ phase' = "implementations"
        /\ asked' = asked /\ next' = next /\ scanned' = scanned
    BY <1>2 DEF AddCallGraphContext
  <2>2. hits' \in HitLists(Allowed, scanned)
    BY <1>1, <2>1, CallGraphContextType
  <2> QED BY <1>1, <2>1, <2>2, HitsChange
<1>3. CASE AddImplementationContext
  <2>1. /\ hits' = ImplementationContext(scanned, hits)
        /\ phase' = "rank"
        /\ asked' = asked /\ next' = next /\ scanned' = scanned
    BY <1>3 DEF AddImplementationContext
  <2>2. hits' \in HitLists(Allowed, scanned)
    BY <1>1, <2>1, ImplementationContextType
  <2> QED BY <1>1, <2>1, <2>2, HitsChange
<1> QED BY <1>2, <1>3

LEMMA RankInv ==
  ASSUME InspectionInv, Rank
  PROVE  InspectionInv'
<1> DEFINE keys == [i \in DOMAIN hits |-> HitRank(hits[i])]
           most == MaxOf(1, asked.maxHits)
           best == Prefix(Ranked(hits, keys), most)
<1>1. /\ hits' = best /\ phase' = "done"
      /\ asked' = asked /\ next' = next /\ scanned' = scanned
  BY DEF Rank
<1>2. /\ asked \in Inspections /\ next \in Nat \ {0}
      /\ hits \in HitLists(Allowed, scanned)
  BY DEF InspectionInv, HitsInv
<1>3. most \in Nat
  <2>1. asked.maxHits \in Int
    BY <1>2, InspectionsAssumption
  <2> QED BY <2>1 DEF MaxOf
<1> HIDE DEF keys, most
<1>4. best \in HitLists(Allowed, scanned) /\ Len(best) <= most
  BY <1>2, <1>3, RankType
<1> HIDE DEF best
<1> QED BY <1>1, <1>2, <1>4, HitsChange DEF most

LEMMA NextInv ==
  ASSUME InspectionInv, [Next]_vars
  PROVE  InspectionInv'
<1>1. asked \in Inspections /\ next \in Nat \ {0} /\ HitsInv
  BY DEF InspectionInv
<1>2. CASE Refuse
  <2>1. /\ phase = "start" /\ phase' = "done" /\ asked' = asked
        /\ next' = next /\ scanned' = scanned /\ hits' = hits
    BY <1>2 DEF Refuse
  <2>2. hits = <<>>
    BY <1>1, <2>1 DEF HitsInv
  <2> QED BY <1>1, <2>1, <2>2, HitsKept DEF InspectionInv
<1>3. CASE Begin
  <2>1. /\ phase = "start" /\ phase' = "scan" /\ asked' = asked
        /\ next' = next /\ scanned' = scanned /\ hits' = hits
    BY <1>3 DEF Begin
  <2> QED BY <1>1, <2>1, HitsKept DEF InspectionInv
<1>4. CASE SkipDenied
  <2>1. /\ phase' = phase /\ asked' = asked
        /\ next' = next + 1 /\ scanned' = scanned /\ hits' = hits
    BY <1>4 DEF SkipDenied
  <2> QED BY <1>1, <2>1, HitsKept DEF InspectionInv
<1>5. CASE UNCHANGED vars
  <2>1. /\ phase' = phase /\ asked' = asked
        /\ next' = next /\ scanned' = scanned /\ hits' = hits
    BY <1>5 DEF vars
  <2> QED BY <1>1, <2>1, HitsKept DEF InspectionInv
<1> QED BY <1>2, <1>3, <1>4, <1>5, ScanFileInv, ResolveInv, MatchInv,
           ContextInv, RankInv DEF Next

LEMMA InspectionInvariant == Spec => []InspectionInv
BY InitInv, NextInv, PTL DEF Spec

-----------------------------------------------------------------------------
(* Every file that the evidence names, be it through a match, the call     *)
(* graph, an implement relation or a resolved call, is one that inspect    *)
(* may look into, by whatever path it was found.                           *)
THEOREM EvidenceAlwaysAllowed == Spec => []EvidenceIsAllowed
<1>1. InspectionInv => EvidenceIsAllowed
  <2> SUFFICES ASSUME InspectionInv, NEW h \in ToSet(hits)
               PROVE  /\ h.file \in Allowed
                      /\ \A e \in ToSet(h.edges) : \A t \in ToSet(e.resolved) :
                            t.file \in Allowed
    BY DEF EvidenceIsAllowed, Allowed
  <2>1. h \in Hits(Allowed)
    BY DEF InspectionInv, HitsInv, HitLists, HitsIn, ToSet
  <2>2. h.file \in Allowed /\ h.edges \in Seq(Edges(Allowed, Nat))
    BY <2>1 DEF Hits
  <2>3. ASSUME NEW e \in ToSet(h.edges), NEW t \in ToSet(e.resolved)
        PROVE  t.file \in Allowed
    <3>1. e \in Edges(Allowed, Nat)
      BY <2>2 DEF ToSet
    <3>2. e.resolved \in Seq(Targets(Allowed))
      BY <3>1 DEF Edges
    <3>3. t \in Targets(Allowed)
      BY <3>2 DEF ToSet
    <3> QED BY <3>3 DEF Targets
  <2> QED BY <2>2, <2>3
<1> QED BY <1>1, InspectionInvariant, PTL

(* The lines quoted for a match are lines of the file it is of, at most    *)
(* MAX_CODE_EXCERPT_LINES, and show what the match is about                *)
(* (_line_range, _bounded_range).                                          *)
THEOREM ExcerptsShowTheirFinding == Spec => []ExcerptShowsTheFinding
<1>1. InspectionInv => ExcerptShowsTheFinding
  <2> SUFFICES ASSUME InspectionInv, NEW h \in ToSet(hits)
               PROVE  Shows(h.range, h.lines, h.primary, Len(FileOf(h).lines))
    BY DEF ExcerptShowsTheFinding, Shows
  <2>1. scanned \in Seq(Files(Allowed)) /\ h \in HitsIn(Allowed, scanned)
    BY DEF InspectionInv, FilesInv, HitsInv, HitLists, ToSet
  <2> DEFINE I == {i \in 1 .. Len(scanned) : scanned[i].file = h.file}
  <2>2. DOMAIN scanned = 1 .. Len(scanned) /\ Len(scanned) \in Nat
    BY <2>1
  <2>3. PICK f \in ToSet(scanned) : f.file = h.file
    BY <2>1 DEF HitsIn
  <2>4. PICK k \in DOMAIN scanned : f = scanned[k]
    BY <2>3 DEF ToSet
  <2>5. k \in I /\ I \in SUBSET Nat
    BY <2>2, <2>3, <2>4
  <2>6. FileOf(h) = scanned[Min(I)]
    BY <2>5 DEF FileOf, SelectInSeq
  <2>7. Min(I) \in I
    <3> HIDE DEF I
    <3> QED BY <2>5, MinIs
  <2>8. FileOf(h) \in ToSet(scanned) /\ FileOf(h).file = h.file
    BY <2>2, <2>6, <2>7 DEF ToSet
  <2> QED BY <2>1, <2>8 DEF HitsIn
<1> QED BY <1>1, InspectionInvariant, PTL

\* what every state says of the calls of a file with braces
LEMMA CallEnclosed ==
  ASSUME InspectionInv, NEW f \in ToSet(scanned),
         f.language \in {"java", "go"}, NEW e \in ToSet(f.analysis.edges)
  PROVE  /\ f.lines \in Seq(Lines) /\ e.line \in 1 .. Len(f.lines)
         /\ \E m \in 1 .. e.line :
               Encloses(f.language, f.lines, f.analysis.symbols, e.caller, m, e.line)
<1>1. f \in Files(Allowed) /\ EdgesEnclosed(f.language, f.lines, f.analysis)
  BY DEF InspectionInv, FilesInv, ToSet
<1>2. /\ f.lines \in Seq(Lines)
      /\ f.analysis.edges \in Seq(Edges(Allowed, 1 .. Len(f.lines)))
  BY <1>1, FileTypes
<1>3. e \in Edges(Allowed, 1 .. Len(f.lines))
  BY <1>2 DEF ToSet
<1> QED BY <1>1, <1>2, <1>3 DEF Edges, EdgesEnclosed

(* The caller of a call in a file of Java or Go is a callable declared     *)
(* before it whose braces, once opened, are still open where the call is;  *)
(* in Java it has a body (_analyze_java, _analyze_go).                     *)
THEOREM CallersAlwaysEnclose == Spec => []CallersEnclose
<1>1. InspectionInv => CallersEnclose
  <2> SUFFICES ASSUME InspectionInv, NEW f \in ToSet(scanned),
                      f.language \in {"java", "go"},
                      NEW e \in ToSet(f.analysis.edges)
               PROVE  \E m \in EnclosingHeaders(f.language, f.lines, e.line) :
                         f.lines[m].header = e.caller.name
    BY DEF CallersEnclose
  <2>1. PICK m \in 1 .. e.line :
           Encloses(f.language, f.lines, f.analysis.symbols, e.caller, m, e.line)
    BY CallEnclosed
  <2>2. m \in EnclosingHeaders(f.language, f.lines, e.line)
    BY <2>1 DEF Encloses, Opened, EnclosingHeaders
  <2> QED BY <2>1, <2>2 DEF Encloses
<1> QED BY <1>1, InspectionInvariant, PTL

(* A call lies within the lines that would be quoted of its caller, unless *)
(* the braces of the caller are not closed in the window                   *)
(* (_braced_scope_range): the scan that finds where a callable ends and    *)
(* the one that quotes it agree.                                           *)
THEOREM EdgesAlwaysInScope == Spec => []EdgesAreInScope
<1>1. InspectionInv => EdgesAreInScope
  <2> SUFFICES ASSUME InspectionInv, NEW f \in ToSet(scanned),
                      f.language \in {"java", "go"},
                      NEW e \in ToSet(f.analysis.edges)
               PROVE  \E s \in ToSet(f.analysis.symbols) :
                         /\ s.name = e.caller.name /\ s.owner = e.caller.owner
                         /\ s.line <= e.line
                         /\ \/ Balanced(f.lines, s.line) = {}
                            \/ Within(SymbolScopeRange(f.language, f.lines, s),
                                      e.line)
    BY DEF EdgesAreInScope
  <2>1. /\ f.lines \in Seq(Lines) /\ e.line \in 1 .. Len(f.lines)
        /\ \E m \in 1 .. e.line :
              Encloses(f.language, f.lines, f.analysis.symbols, e.caller, m, e.line)
    BY CallEnclosed
  <2>2. PICK m \in 1 .. e.line :
           Encloses(f.language, f.lines, f.analysis.symbols, e.caller, m, e.line)
    BY <2>1
  <2>3. PICK s \in ToSet(f.analysis.symbols) :
           s.name = e.caller.name /\ s.owner = e.caller.owner /\ s.line = m
    BY <2>2 DEF Encloses
  <2> DEFINE lines == f.lines
             n == Min(Balanced(lines, m))
  <2>4. ASSUME Balanced(lines, m) # {}
        PROVE  Within(SymbolScopeRange(f.language, lines, s), e.line)
    <3>1. Balanced(lines, m) \in SUBSET Nat
      BY <2>1 DEF Balanced
    <3>2. n \in Balanced(lines, m)
      BY <2>4, <3>1, MinIs
    <3> HIDE DEF n
    <3>3. /\ n \in m .. Len(lines) /\ Braces(lines, m, n) <= 0
          /\ \E k \in m .. n : lines[k].opens > 0
      BY <3>2 DEF Balanced
    <3>4. ~Opened(lines, m, n)
      <4>1. Braces(lines, m, n) \in Int
        <5>1. m \in 1 .. Len(lines) /\ n \in 0 .. Len(lines)
          BY <2>1, <3>3
        <5> HIDE DEF lines
        <5>2. lines \in Seq(Lines)
          BY <2>1 DEF lines
        <5> QED BY <5>1, <5>2, BracesLoop
      <4>2. ~(Braces(lines, m, n) > 0)
        BY <3>3, <4>1
      <4>3. PICK k \in m .. n : lines[k].opens > 0
        BY <3>3
      <4>4. lines[k].opens # 0
        BY <4>3
      <4> QED BY <4>2, <4>3, <4>4 DEF Opened
    <3>5. n \notin m .. e.line - 1
      BY <2>2, <3>4 DEF Encloses
    <3>6. e.line <= n
      BY <2>1, <3>3, <3>5
    <3>7. SymbolScopeRange(f.language, lines, s) = <<m, n>>
      BY <2>3, <2>4 DEF SymbolScopeRange, BracedScopeRange, n
    <3> QED BY <2>1, <3>6, <3>7 DEF Within
  <2>5. s.line <= e.line
    BY <2>1, <2>3
  <2> QED BY <2>3, <2>4, <2>5
<1> QED BY <1>1, InspectionInvariant, PTL

(* However many calls and symbols share a name with the query, of a hit    *)
(* the calls, the symbols, the line numbers and the words of the query     *)
(* stay limited (not the implement relations); a file has one hit, and no  *)
(* more hits are returned than were asked for (_match_scanned_file,        *)
(* _add_call_graph_context, inspect).                                      *)
THEOREM HitsAlwaysBounded == Spec => []HitsAreBounded
<1>1. InspectionInv => HitsAreBounded
  <2> SUFFICES ASSUME InspectionInv
               PROVE  HitsAreBounded
    OBVIOUS
  <2>1. /\ hits \in Seq(HitsIn(Allowed, scanned)) /\ OfOneFileEach(hits)
        /\ phase = "done" => Len(hits) <= MaxOf(1, asked.maxHits)
    BY DEF InspectionInv, HitsInv, HitLists
  <2>2. \A h \in ToSet(hits) : Limited(h)
    BY <2>1 DEF HitsIn, ToSet
  <2>3. Cardinality({h.file : h \in ToSet(hits)}) = Len(hits)
    <3> DEFINE S == {h.file : h \in ToSet(hits)}
               N == Len(hits)
               file == [i \in 1 .. N |-> hits[i].file]
    <3>1. DOMAIN hits = 1 .. N /\ N \in Nat
      BY <2>1
    <3>2. file \in Bijection(1 .. N, S)
      <4>1. file \in [1 .. N -> S]
        BY <3>1 DEF ToSet
      <4>2. \A i, j \in 1 .. N : file[i] = file[j] => i = j
        BY <2>1, <3>1 DEF OfOneFileEach
      <4>3. \A x \in S : \E i \in 1 .. N : file[i] = x
        BY <3>1 DEF ToSet
      <4> HIDE DEF S, N, file
      <4> QED BY <4>1, <4>2, <4>3 DEF Bijection, Injection, Surjection, IsInjective
    <3>3. ExistsBijection(1 .. N, S)
      BY <3>2 DEF ExistsBijection
    <3> HIDE DEF S, N
    <3>4. Cardinality(S) = N
      BY <3>1, <3>3, FS_CountingElements
    <3> QED BY <3>4 DEF S, N
  <2> QED BY <2>1, <2>2, <2>3 DEF HitsAreBounded, Limited
<1> QED BY <1>1, InspectionInvariant, PTL

(* A call or an implement relation is twice in a hit only when it is twice *)
(* in the hit's file: what the context adds was not there                  *)
(* (_add_call_graph_context, _add_implementation_context).                 *)
THEOREM ContextNeverRepeats == Spec => []ContextRepeatsNothing
<1>1. InspectionInv => ContextRepeatsNothing
  <2> SUFFICES ASSUME InspectionInv, NEW h \in ToSet(hits)
               PROVE  RepeatsAsItsFile(h, scanned)
    BY DEF ContextRepeatsNothing
  <2>1. h \in HitsIn(Allowed, scanned)
    BY DEF InspectionInv, HitsInv, HitLists, ToSet
  <2> QED BY <2>1 DEF HitsIn
<1> QED BY <1>1, InspectionInvariant, PTL

=============================================================================
