---------------------------- MODULE CodeInspection ----------------------------
(***************************************************************************)
(* LocalCodeInspector.inspect of decision_engine/local_code.py: the files  *)
(* of an allowlisted repository are scanned and analysed one by one, calls *)
(* are resolved across files, files that match the query become hits, the  *)
(* call graph and the implement relations add hits around them, and the    *)
(* best ranked are returned as evidence.                                   *)
(*                                                                         *)
(* An entry of a repository is a path that the allowed globs list, with    *)
(*   target     the file it is, after following symbolic links             *)
(*   inside     whether that is below the root of the repository           *)
(*   size       "small", "large" (more than TEXT_FILE_MAX_BYTES), or       *)
(*              "unreadable"                                               *)
(*   language, lines (see CodeAnalysis), and score, _production_path_score *)
(* A query is a sequence of items, each the sequence of the words that     *)
(* _query_terms makes of it.  Strings match as whole words; the name of    *)
(* the language is not one of them, and suspicions and follow-up advice,   *)
(* which are worded from a hit, are left out.                              *)
(***************************************************************************)
EXTENDS CodeAnalysis

CONSTANTS
    Inspections,    \* [state, entries, query, maxHits] that may be asked for
    Denied,         \* targets that match the deny globs
    StopTerms,      \* QUERY_STOP_TERMS, and words too short
    Weight,         \* of a word in _line_specificity_score: 1, 2 or 4
    MaxTerms,       \* no further item is taken once there are 32 terms
    MaxMatchedTerms,\* words of the query a hit keeps (8)
    MaxLineNumbers, \* 8
    MaxSymbols,     \* MAX_SYMBOLS_PER_HIT
    MaxCallEdges,   \* MAX_CALL_EDGES_PER_HIT
    MaxResolved,    \* symbols an edge is resolved to (5)
    ContextSymbols  \* symbols of a hit that only the context found (4)

ASSUME LimitsAssumption ==
    /\ MaxExcerptLines \in Nat /\ MaxExcerptLines > 3
    /\ {MaxTerms, MaxMatchedTerms, MaxLineNumbers, MaxSymbols, MaxCallEdges,
        MaxResolved, ContextSymbols} \subseteq Nat

Entries == [path : STRING, target : STRING, inside : BOOLEAN,
            size : {"small", "large", "unreadable"}, language : Names,
            lines : Seq(Lines), score : Nat]

\* the call c of a declaration or statement on line n starts in the file
CallsAreInFile(lines) ==
    \A n \in DOMAIN lines :
        \A c \in ToSet(lines[n].calls) \cup ToSet(lines[n].after) :
            n + c.below \in DOMAIN lines

\* a file does not change while it is inspected, under whatever name
ASSUME InspectionsAssumption ==
    \A i \in Inspections :
        /\ i.entries \in Seq(Entries) /\ i.maxHits \in Int
        /\ i.query \in Seq(Seq(Names))
        /\ \A e, f \in ToSet(i.entries) :
              e.target = f.target => Len(e.lines) = Len(f.lines)
        /\ \A e \in ToSet(i.entries) : CallsAreInFile(e.lines)

VARIABLES
    asked,      \* the inspection asked for
    phase,      \* what inspect does next
    next,       \* the entry to look at, the scanned file to match
    scanned,    \* the files analysed: file, language, lines, analysis
    skipped,    \* skipped_denied_files
    opened,     \* scanned_files
    hits,       \* hits_by_file, in insertion order
    status      \* of the LocalCodeInspection returned

vars == <<asked, phase, next, scanned, skipped, opened, hits, status>>

-----------------------------------------------------------------------------
(* The query.                                                              *)

\* no item is taken any more once there are MaxTerms
QueryTerms(query) ==
    LET terms[n \in 0 .. Len(query)] ==
          IF n = 0 THEN <<>>
          ELSE IF Len(terms[n - 1]) >= MaxTerms THEN terms[n - 1]
          ELSE Distinct(terms[n - 1]
                          \o Only(query[n], ToSet(query[n]) \ StopTerms))
    IN  terms[Len(query)]

Terms == ToSet(QueryTerms(asked.query))

SymbolWords(s) == ToSet(s.owner) \cup {s.name, s.kind}
EdgeWords(e) == {e.caller.name, e.callee, e.receiver, e.type}
                  \cup ToSet(e.qualifier)
RelationWords(r) == {r.type, r.interface}

MatchesText(words, terms) == words \cap terms # {}

Score(words, terms) ==
    FoldSet(LAMBDA w, sum : sum + Weight[w], 0, words \cap terms)

(* The most specific lines come first, then the earlier ones.              *)
ContentLines(lines, terms) ==
    LET found == Only([n \in DOMAIN lines |-> n],
                      {n \in DOMAIN lines :
                         ~lines[n].low /\ MatchesText(lines[n].words, terms)})
        keys == [i \in DOMAIN found |-> <<Score(lines[found[i]].words, terms)>>]
    IN  Prefix(Ranked(found, keys), MaxLineNumbers)

LineOf(s) == [i \in DOMAIN s |-> s[i].line]
BooleanAsNumber(b) == IF b THEN 1 ELSE 0

(* A callable comes before a class, then the more specific one, then one   *)
(* that matches itself, that starts before the anchor, that is near.       *)
PrimarySymbol(symbols, words, direct, edges, relations, lines) ==
    LET anchors == MergeLineNumbers(<<LineOf(edges), LineOf(relations), lines,
                                      LineOf(direct)>>)
        anchor == IF anchors # <<>> THEN anchors[1] ELSE symbols[1].line
        distance(s) == IF anchors = <<>> THEN 0
                       ELSE Min({MaxOf(s.line - n, n - s.line) :
                                   n \in ToSet(anchors)})
        score(s) ==
            <<IF s.kind \in {"method", "function"} THEN 2
              ELSE BooleanAsNumber(s.kind \in {"class", "interface"}),
              Cardinality(SymbolWords(s) \cap words),
              BooleanAsNumber(s \in ToSet(direct)),
              BooleanAsNumber(s.line <= anchor),
              -distance(s)>>
    IN  Prefix(Ranked(symbols, [i \in DOMAIN symbols |-> score(symbols[i])]), 1)

-----------------------------------------------------------------------------
(* Hits.                                                                   *)

Located(file, s) == [file |-> file, symbol |-> s]

\* _match_scanned_file: the empty sequence when nothing matches
MatchFile(f) ==
    LET a == f.analysis
        matched == Only(QueryTerms(asked.query),
                        UNION {f.lines[n].words : n \in DOMAIN f.lines})
        words == ToSet(matched)
        symbols == Only(a.symbols, {s \in ToSet(a.symbols) :
                                      MatchesText(SymbolWords(s), Terms)})
        edges == Only(a.edges, {e \in ToSet(a.edges) :
                                  MatchesText(EdgeWords(e), Terms)})
        relations == Only(a.relations, {r \in ToSet(a.relations) :
                                          MatchesText(RelationWords(r), Terms)})
        content == ContentLines(f.lines, words)
        structural == MergeLineNumbers(<<LineOf(symbols), LineOf(edges),
                                         LineOf(relations)>>)
        candidates == MergeLineNumbers(<<structural, content>>)
        primary == PrimarySymbol(a.symbols, words, symbols, edges, relations,
                                 candidates)
        scope == SymbolScopeRange(f.language, f.lines, primary[1])
        scoped == IF primary = <<>> THEN <<>>
                  ELSE Only(MergeLineNumbers(<<content, structural>>),
                            scope[1] .. scope[2])
        lines == Prefix(MergeLineNumbers(<<scoped, candidates>>),
                        MaxLineNumbers)
    IN  IF words = {} /\ symbols = <<>> /\ edges = <<>> /\ relations = <<>>
        THEN <<>>
        ELSE <<[file |-> f.file, words |-> Prefix(matched, MaxMatchedTerms),
                lines |-> lines, primary |-> primary,
                range |-> LineRange(f.language, f.lines, lines, primary),
                symbols |-> Prefix(symbols, MaxSymbols),
                edges |-> Prefix(edges, MaxCallEdges),
                relations |-> Prefix(relations, MaxSymbols)]>>

\* files_by_path[file]
LastScanned(files, file) ==
    files[Max({i \in DOMAIN files : files[i].file = file})]

\* a hit that only the call graph or an implement relation brought in
ContextHit(files, f, line) ==
    [file |-> f.file, words |-> <<"context">>, lines |-> <<line>>,
     primary |-> <<>>, range |-> <<0, 0>>,
     symbols |-> Prefix(LastScanned(files, f.file).analysis.symbols,
                        ContextSymbols),
     edges |-> <<>>, relations |-> <<>>]

HitOf(all, file) == SelectInSeq(all, LAMBDA h : h.file = file)

\* hits_by_file[hit.file_path] = hit
PutHit(all, hit) ==
    LET i == HitOf(all, hit.file)
    IN  IF i = 0 THEN Append(all, hit) ELSE [all EXCEPT ![i] = hit]

OrContext(files, all, f, line) ==
    IF HitOf(all, f.file) = 0 THEN PutHit(all, ContextHit(files, f, line))
    ELSE all

\* calls are the same when caller and callee are, by their full names, and line
CallKey(e) == <<e.caller, e.qualifier, e.callee, e.line>>
CallKeys(edges) == [i \in DOMAIN edges |-> CallKey(edges[i])]

RelationKey(r) == <<r.type, r.interface>>
RelationKeys(relations) ==
    [i \in DOMAIN relations |-> RelationKey(relations[i])]

\* slip: the limit is that of the matched edges only
AddEdgeUnlimited(files, all, f, e) ==
    LET with == OrContext(files, all, f, e.line)
        i == HitOf(with, f.file)
    IN  IF CallKey(e) \in ToSet(CallKeys(with[i].edges)) THEN with
        ELSE [with EXCEPT ![i].edges = Append(@, e)]

\* slip: a call that the match found is added again
AddEdgeAgain(files, all, f, e) ==
    LET with == OrContext(files, all, f, e.line)
        i == HitOf(with, f.file)
    IN  IF Len(with[i].edges) >= MaxCallEdges THEN with
        ELSE [with EXCEPT ![i].edges = Append(@, e)]

AddEdge(files, all, f, e) ==
    LET with == OrContext(files, all, f, e.line)
        i == HitOf(with, f.file)
    IN  IF \/ Len(with[i].edges) >= MaxCallEdges
           \/ CallKey(e) \in ToSet(CallKeys(with[i].edges))
        THEN with
        ELSE [with EXCEPT ![i].edges = Append(@, e)]

AddRelation(files, all, f, r) ==
    LET with == OrContext(files, all, f, r.line)
        i == HitOf(with, f.file)
    IN  IF RelationKey(r) \in ToSet(RelationKeys(with[i].relations)) THEN with
        ELSE [with EXCEPT ![i].relations = Append(@, r)]

\* the names of the symbols and calls that matched, also of a hit that another
\* one of its file replaced
MatchedNames(files) ==
    LET matched == UNION {ToSet(MatchFile(f)) : f \in ToSet(files)}
    IN  UNION {{s.name : s \in ToSet(h.symbols)} : h \in matched}
          \cup UNION {UNION {{e.caller.name, e.callee} : e \in ToSet(h.edges)} :
                        h \in matched}

\* what is in the lists of the files, each with its file, one file after the
\* other; lists[i] is the list of files[i]
InFiles(files, lists) ==
    FlattenSeq([i \in DOMAIN files |->
        [k \in DOMAIN lists[i] |-> [file |-> files[i], item |-> lists[i][k]]]])

\* every edge of every file that shares a name with them joins its file's hit
CallGraphContext(files, all) ==
    LET names == MatchedNames(files)
        calls == InFiles(files, [i \in DOMAIN files |-> files[i].analysis.edges])
        named(e) == {e.caller.name, e.callee} \cap names # {}
        result[n \in 0 .. Len(calls)] ==
          IF n = 0 THEN all
          ELSE IF ~named(calls[n].item) THEN result[n - 1]
          ELSE AddEdge(files, result[n - 1], calls[n].file, calls[n].item)
    IN  result[Len(calls)]

\* the types of receivers, the owners, by their full names, and the names
RelevantTypes(all) ==
    LET edges   == UNION {ToSet(h.edges) : h \in ToSet(all)}
        symbols == UNION {{t.symbol : t \in ToSet(e.resolved)} : e \in edges}
                     \cup UNION {ToSet(h.symbols) : h \in ToSet(all)}
    IN  {<<e.type>> : e \in edges}
          \cup {s.owner : s \in symbols} \cup {<<s.name>> : s \in symbols}

ImplementationContext(files, all) ==
    LET types == RelevantTypes(all)
        found == InFiles(files,
                         [i \in DOMAIN files |-> files[i].analysis.relations])
        relevant(r) == {<<r.type>>, <<r.interface>>} \cap types # {}
        result[n \in 0 .. Len(found)] ==
          IF n = 0 THEN all
          ELSE IF ~relevant(found[n].item) THEN result[n - 1]
          ELSE AddRelation(files, result[n - 1], found[n].file, found[n].item)
    IN  result[Len(found)]

-----------------------------------------------------------------------------
(* Resolution of calls across files.                                       *)

AllSymbols(files) ==
    FlattenSeq([i \in DOMAIN files |->
        [k \in DOMAIN files[i].analysis.symbols |->
            Located(files[i].file, files[i].analysis.symbols[k])]])

\* by the declared type of the receiver and what implements it, by the
\* qualifier, or by the name alone
Candidates(files, e) ==
    LET all == AllSymbols(files)
        named == Only(all, {t \in ToSet(all) : t.symbol.name = e.callee})
        owned(owner) == Only(named, {t \in ToSet(named) :
                                       t.symbol.owner = owner})
        relations == FlattenSeq([i \in DOMAIN files |->
                                   files[i].analysis.relations])
        implementers == Only(relations, {r \in ToSet(relations) :
                                           r.interface = e.type})
    IN  IF e.type # None THEN
            owned(<<e.type>>) \o FlattenSeq([i \in DOMAIN implementers |->
                                  owned(<<implementers[i].type>>)])
        ELSE IF e.qualifier # <<>> THEN owned(e.qualifier)
        ELSE named

ResolutionKind(e) == IF e.type # None THEN "receiver_type"
                     ELSE IF e.qualifier # <<>> THEN "qualified_callee"
                     ELSE "symbol_name"

\* in percent
ResolutionConfidence(kind, n) ==
    CASE kind = "receiver_type"    -> IF n <= 2 THEN 90 ELSE 75
      [] kind = "qualified_callee" -> IF n <= 2 THEN 78 ELSE 62
      [] kind = "symbol_name"      -> IF n = 1 THEN 55 ELSE 35

\* the file's own symbols first, callables first, earlier ones first
ResolveEdge(files, file, e) ==
    LET unique == Distinct(Candidates(files, e))
        key(t) == <<BooleanAsNumber(t.file = file),
                    BooleanAsNumber(t.symbol.kind \in {"method", "function"}),
                    -t.symbol.line>>
        keys == [i \in DOMAIN unique |-> key(unique[i])]
        found == Prefix(Ranked(unique, keys), MaxResolved)
    IN  IF found = <<>> THEN e
        ELSE [e EXCEPT !.resolved = found, !.how = ResolutionKind(e),
                       !.confidence = ResolutionConfidence(ResolutionKind(e),
                                                           Len(found))]

-----------------------------------------------------------------------------
(* The inspection.                                                         *)

Init ==
    /\ asked \in Inspections
    /\ phase = "start"
    /\ next = 1
    /\ scanned = <<>>
    /\ skipped = 0 /\ opened = 0
    /\ hits = <<>>
    /\ status = None

\* disabled, not mapped, not there, or asked nothing
Refuse ==
    /\ phase = "start"
    /\ asked.state # "ready" \/ Terms = {}
    /\ status' = IF asked.state # "ready" THEN asked.state ELSE "no_query_terms"
    /\ phase' = "done"
    /\ UNCHANGED <<asked, next, scanned, skipped, opened, hits>>

Begin ==
    /\ phase = "start"
    /\ asked.state = "ready" /\ Terms # {}
    /\ phase' = "scan"
    /\ UNCHANGED <<asked, next, scanned, skipped, opened, hits, status>>

\* slip: the name of the link is checked, not that of the file
MayReadPath(entry) == entry.inside /\ entry.path \notin Denied

MayRead(entry) == entry.inside /\ entry.target \notin Denied

SkipDenied ==
    /\ phase = "scan" /\ next <= Len(asked.entries)
    /\ ~MayRead(asked.entries[next])
    /\ skipped' = skipped + 1
    /\ next' = next + 1
    /\ UNCHANGED <<asked, phase, scanned, opened, hits, status>>

\* a file too large is passed over, one that cannot be read is counted
ScanFile ==
    LET entry == asked.entries[next] IN
    /\ phase = "scan" /\ next <= Len(asked.entries)
    /\ MayRead(entry)
    /\ opened' = IF entry.size = "large" THEN opened ELSE opened + 1
    /\ scanned' = IF entry.size # "small" THEN scanned
                  ELSE Append(scanned,
                         [file |-> entry.target, language |-> entry.language,
                          lines |-> entry.lines, score |-> entry.score,
                          analysis |-> Analyze(entry.language, entry.lines)])
    /\ next' = next + 1
    /\ UNCHANGED <<asked, phase, skipped, hits, status>>

ResolveCrossModuleSymbols ==
    /\ phase = "scan" /\ next > Len(asked.entries)
    /\ scanned' = [i \in DOMAIN scanned |->
                     [scanned[i] EXCEPT !.analysis.edges =
                        [k \in DOMAIN @ |->
                           ResolveEdge(scanned, scanned[i].file, @[k])]]]
    /\ phase' = "match"
    /\ next' = 1
    /\ UNCHANGED <<asked, skipped, opened, hits, status>>

MatchScannedFile ==
    /\ phase = "match" /\ next <= Len(scanned)
    /\ LET hit == MatchFile(scanned[next])
       IN  hits' = IF hit = <<>> THEN hits ELSE PutHit(hits, hit[1])
    /\ next' = next + 1
    /\ UNCHANGED <<asked, phase, scanned, skipped, opened, status>>

AddCallGraphContext ==
    /\ phase = "match" /\ next > Len(scanned)
    /\ hits' = CallGraphContext(scanned, hits)
    /\ phase' = "implementations"
    /\ UNCHANGED <<asked, next, scanned, skipped, opened, status>>

AddImplementationContext ==
    /\ phase = "implementations"
    /\ hits' = ImplementationContext(scanned, hits)
    /\ phase' = "rank"
    /\ UNCHANGED <<asked, next, scanned, skipped, opened, status>>

FileOf(hit) == scanned[SelectInSeq(scanned, LAMBDA f : f.file = hit.file)]

\* what of a hit its score is computed on, a path being one word
HitWords(hit) ==
    {hit.file}
      \cup UNION {ToSet(s.owner) \cup {s.name} :
                    s \in ToSet(hit.symbols \o hit.primary)}
      \cup UNION {ToSet(e.caller.owner) \cup {e.caller.name}
                    \cup ToSet(e.qualifier) \cup {e.callee, e.type} :
                    e \in ToSet(hit.edges)}

HitRank(hit) ==
    <<FileOf(hit).score, Score(HitWords(hit), ToSet(hit.words)),
      BooleanAsNumber(hit.symbols # <<>> \/ hit.edges # <<>>),
      Len(hit.edges), Len(hit.symbols), Len(hit.words),
      Len(hit.lines)>>

Rank ==
    /\ phase = "rank"
    /\ hits' = Prefix(Ranked(hits, [i \in DOMAIN hits |-> HitRank(hits[i])]),
                      MaxOf(1, asked.maxHits))
    /\ status' = IF hits = <<>> THEN "no_match" ELSE "matched"
    /\ phase' = "done"
    /\ UNCHANGED <<asked, next, scanned, skipped, opened>>

Next ==
    \/ Refuse \/ Begin \/ SkipDenied \/ ScanFile
    \/ ResolveCrossModuleSymbols \/ MatchScannedFile
    \/ AddCallGraphContext \/ AddImplementationContext \/ Rank

Spec == Init /\ [][Next]_vars

-----------------------------------------------------------------------------
(* Properties.                                                             *)

(* Every file that the evidence names - through a match, the call graph,   *)
(* an implement relation or a resolved call - is below the root, outside   *)
(* the deny globs and small, also when a link led to it (inspect).         *)
EvidenceIsAllowed ==
    LET allowed == {e.target : e \in
                      {e \in ToSet(asked.entries) :
                         e.inside /\ e.target \notin Denied
                           /\ e.size = "small"}}
    IN  \A h \in ToSet(hits) :
           /\ h.file \in allowed
           /\ \A e \in ToSet(h.edges) : \A t \in ToSet(e.resolved) :
                 t.file \in allowed

(* The lines quoted for a match are lines of the file, at most             *)
(* MAX_CODE_EXCERPT_LINES, and show a line that matched or the symbol the  *)
(* finding is about (_line_range, _bounded_range).                         *)
ExcerptShowsTheFinding ==
    \A h \in ToSet(hits) :
        h.range # <<0, 0>> =>
           /\ 1 <= h.range[1] /\ h.range[1] <= h.range[2]
           /\ h.range[2] <= Len(FileOf(h).lines)
           /\ h.range[2] - h.range[1] < MaxExcerptLines
           /\ \/ \E n \in ToSet(h.lines) : Within(h.range, n)
              \/ h.primary # <<>> /\ Within(h.range, h.primary[1].line)

(* Reference: the callables whose braces are not balanced before line n.   *)
(* One of Java must have a body; of a Go function that is only declared    *)
(* the braces that come next count, those of the function after it.        *)
EnclosingHeaders(language, lines, n) ==
    {m \in 1 .. n :
        /\ lines[m].header # None
        /\ language = "java" => ~lines[m].bodiless
        /\ \A k \in m .. n - 1 :
             \/ Braces(lines, m, k) > 0
             \/ \A j \in m .. k : lines[j].opens = 0}

(* The caller of a call is a callable declared before it whose braces,     *)
(* once opened, are still open on its line; in Java one with a body        *)
(* (_analyze_java, _analyze_go).                                           *)
CallersEnclose ==
    \A f \in ToSet(scanned) : f.language \in {"java", "go"} =>
        \A e \in ToSet(f.analysis.edges) :
            \E m \in EnclosingHeaders(f.language, f.lines, e.line) :
                f.lines[m].header = e.caller.name

(* The two ways of telling where a callable ends agree: a call lies within *)
(* the lines that would be quoted of its caller, unless the braces of the  *)
(* caller are not closed within the window (_braced_scope_range).          *)
EdgesAreInScope ==
    \A f \in ToSet(scanned) : f.language \in {"java", "go"} =>
        \A e \in ToSet(f.analysis.edges) :
            \E s \in ToSet(f.analysis.symbols) :
                /\ s.name = e.caller.name /\ s.owner = e.caller.owner
                /\ s.line <= e.line
                /\ \/ Balanced(f.lines, s.line) = {}
                   \/ Within(SymbolScopeRange(f.language, f.lines, s), e.line)

(* However many calls and symbols share a name with the query, of a hit    *)
(* the calls (MAX_CALL_EDGES_PER_HIT), the symbols, the line numbers and   *)
(* the words of the query stay limited, also after the context; a file has *)
(* one hit and no more hits are returned than were asked for               *)
(* (_match_scanned_file, _add_call_graph_context).  It says nothing of the *)
(* implement relations, which have no limit once the context adds some.    *)
HitsAreBounded ==
    /\ \A h \in ToSet(hits) :
          /\ Len(h.edges) <= MaxCallEdges
          /\ Len(h.symbols) <= MaxOf(MaxSymbols, ContextSymbols)
          /\ Len(h.lines) <= MaxOf(1, MaxLineNumbers)
          /\ Len(h.words) <= MaxOf(1, MaxMatchedTerms)
    /\ Cardinality({h.file : h \in ToSet(hits)}) = Len(hits)
    /\ phase = "done" => Len(hits) <= MaxOf(1, asked.maxHits)

\* what a sequence has in two places
Repeated(s) ==
    {s[i] : i \in {i \in DOMAIN s : \E j \in DOMAIN s : j # i /\ s[j] = s[i]}}

\* what hit h has twice, its file has twice
RepeatsAsItsFile(h, files) ==
    /\ \A call \in Repeated(CallKeys(h.edges)) :
          \E f \in ToSet(files) :
             f.file = h.file /\ call \in Repeated(CallKeys(f.analysis.edges))
    /\ \A pair \in Repeated(RelationKeys(h.relations)) :
          \E f \in ToSet(files) :
             /\ f.file = h.file
             /\ pair \in Repeated(RelationKeys(f.analysis.relations))

(* A hit names a call twice - the same caller, callee and line - only when *)
(* its file makes it twice there, and an implement relation only when its  *)
(* file declares it twice: what the context adds to a hit was not in it    *)
(* (_add_call_graph_context, _add_implementation_context).                 *)
ContextRepeatsNothing == \A h \in ToSet(hits) : RepeatsAsItsFile(h, scanned)
=============================================================================
