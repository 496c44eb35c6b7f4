------------------------------- MODULE Grammar -------------------------------
(* Structured output: the byte grammars of riley-runtime/src/grammar.rs, the  *)
(* lazily determinized automaton all requests of a grammar share, and the way *)
(* sample_iteration of riley-server/src/engine.rs masks, samples and advances *)
(* a constrained request.  The automata are shared mutable caches: a request  *)
(* meets tables another one built, or tables that were dropped meanwhile.     *)
EXTENDS Integers, FiniteSets, Sequences, SequencesExt

CONSTANTS
    Grammars,           \* builder contents: [rules, start], valid or not
    Requests,
    TokenBytes,         \* the vocabulary: the bytes each token id decodes to
    Eos,                \* end-of-sequence ids, which decode to nothing
    MaxStates,          \* MAX_STATES
    MaxStackDepth,      \* MAX_STACK_DEPTH
    MaxStacks,          \* MAX_STACKS_PER_STATE
    MaxAutomata,        \* MAX_CACHED_AUTOMATA
    MaxOutput,          \* bound: bytes of output a request may produce
    MaxGeneration,      \* bound: times a state table may be dropped
    Horizon             \* bound: length of the sentences of the reference

ASSUME EosDecodesToNothing ==
    \A id \in Eos : id \in DOMAIN TokenBytes /\ TokenBytes[id] = <<>>

VARIABLES
    automata,           \* grammar -> its automaton, or NoAutomaton
    requests,           \* the constrained requests of the backend
    mirror              \* what each request has generated, and how it ended

grammarVars == <<automata, requests, mirror>>

Tokens == DOMAIN TokenBytes
Unknown == 0
Dead == -1

-----------------------------------------------------------------------------
(* GrammarBuilder::build *)

Rules(g) == DOMAIN g.rules
Elements(g, r) == UNION {Range(g.rules[r][a]) : a \in DOMAIN g.rules[r]}

Malformed(g) ==
    \/ g.start \notin Rules(g)
    \/ \E r \in Rules(g) :
        \/ g.rules[r] = <<>>
        \/ \E e \in Elements(g, r) : e.kind = "rule" /\ e.rule \notin Rules(g)

\* One pass of the loop of nullable_rules over the rules, in order.
NullablePass(g, nullable) ==
    LET Mark(known, r) ==
            IF \E a \in DOMAIN g.rules[r] : \A e \in Range(g.rules[r][a]) :
                    e.kind = "rule" /\ e.rule \in known
            THEN known \cup {r}
            ELSE known
    IN  FoldLeft(Mark, nullable, [r \in Rules(g) |-> r])

RECURSIVE NullableFrom(_, _)
NullableFrom(g, nullable) ==
    LET next == NullablePass(g, nullable)
    IN  IF next = nullable THEN nullable ELSE NullableFrom(g, next)

NullableRules(g) == NullableFrom(g, {})

\* The rules an alternative may expand before it has consumed a byte: visit
\* goes on past a nullable rule and stops at the first element that is not one.
LeftCorners(g, alternative) ==
    {alternative[i].rule : i \in
        {i \in DOMAIN alternative :
            /\ alternative[i].kind = "rule"
            /\ \A j \in 1 .. i - 1 :
                alternative[j].kind = "rule" /\ alternative[j].rule \in NullableRules(g)}}

\* visit as a search of the rules below r: one that is on the path closes a cycle.
RECURSIVE Visit(_, _, _)
Visit(g, r, path) ==
    \/ r \in path
    \/ \E a \in DOMAIN g.rules[r] :
        \E next \in LeftCorners(g, g.rules[r][a]) : Visit(g, next, path \cup {r})

LeftRecursive(g) == \E r \in Rules(g) : Visit(g, r, {})

Builds(g) == ~Malformed(g) /\ ~LeftRecursive(g)

-----------------------------------------------------------------------------
(* Parse stacks.  A frame is <<rule, alternative, position>>.                 *)

Element(g, frame) ==
    LET alternative == g.rules[frame[1]][frame[2]]
    IN  IF frame[3] \in DOMAIN alternative THEN alternative[frame[3]] ELSE [kind |-> "end"]

\* expand: the stacks with a byte class on top, or empty, that stack stands for.
RECURSIVE Expand(_, _)
Expand(g, stack) ==
    IF stack = <<>> THEN {stack}
    ELSE LET frame   == Last(stack)
             element == Element(g, frame)
             next    == <<frame[1], frame[2], frame[3] + 1>>
             tail    == Element(g, next).kind = "end"
             base    == IF tail THEN Front(stack) ELSE Append(Front(stack), next)
         IN  CASE element.kind = "end" -> Expand(g, Front(stack))
               [] element.kind = "bytes" -> {stack}
               [] element.kind = "rule" ->
                    IF Len(base) >= MaxStackDepth THEN {}
                    ELSE UNION {Expand(g, Append(base, <<element.rule, a, 1>>)) :
                                    a \in DOMAIN g.rules[element.rule]}

\* The order of the frames and stacks that sort_unstable uses.
FrameLess(f, h) ==
    \E i \in 1 .. 3 : f[i] < h[i] /\ \A j \in 1 .. i - 1 : f[j] = h[j]

StackLess(s, t) ==
    \/ IsStrictPrefix(s, t)
    \/ \E i \in DOMAIN s \cap DOMAIN t :
        FrameLess(s[i], t[i]) /\ \A j \in 1 .. i - 1 : s[j] = t[j]

\* Sorting and removing duplicates make the stacks a set; the first ones stay.
Canonical(stacks) ==
    {s \in stacks : Cardinality({t \in stacks : StackLess(t, s)}) < MaxStacks}

StartStacks(g) ==
    Canonical(UNION {Expand(g, << <<g.start, a, 1>> >>) : a \in DOMAIN g.rules[g.start]})

AdvanceStacks(g, stacks, byte) ==
    LET Takes(s) ==
            s # <<>> /\ Element(g, Last(s)).kind = "bytes" /\ byte \in Element(g, Last(s)).class
        Shift(s) == [s EXCEPT ![Len(s)][3] = @ + 1]
    IN  Canonical(UNION {Expand(g, Shift(s)) : s \in {s \in stacks : Takes(s)}})

-----------------------------------------------------------------------------
(* GrammarAutomaton: an id is a position in states; UNKNOWN and DEAD are not. *)

NoAutomaton == [states |-> <<>>, generation |-> -1]
NewAutomaton == [states |-> <<>>, generation |-> 0]

\* The bytes the vocabulary uses; no other byte is ever stepped on.
Bytes == UNION {Range(TokenBytes[id]) : id \in Tokens}

\* ids, the map from stack sets to ids, which is filled together with states.
IdsOf(a, stacks) == {i \in DOMAIN a.states : a.states[i].stacks = stacks}

\* Every operation returns the automaton it leaves and its result.
Intern(a, stacks) ==
    IF IdsOf(a, stacks) # {}
    THEN [a |-> a, id |-> CHOOSE i \in IdsOf(a, stacks) : TRUE]
    ELSE [a |-> [a EXCEPT !.states = Append(@,
                    [stacks |-> stacks, accepting |-> <<>> \in stacks,
                     masked |-> FALSE, mask |-> {},
                     next |-> [byte \in Bytes |-> Unknown]])],
          id |-> Len(a.states) + 1]

\* The state with these stacks, which is none if there are none.
Target(a, stacks) == IF stacks = {} THEN [a |-> a, id |-> Dead] ELSE Intern(a, stacks)

Linked(made, id, byte) == [made EXCEPT !.a.states[id].next[byte] = made.id]

Step(g, a, id, byte) ==
    IF a.states[id].next[byte] # Unknown
    THEN [a |-> a, id |-> a.states[id].next[byte]]
    ELSE Linked(Target(a, AdvanceStacks(g, a.states[id].stacks, byte)), id, byte)

Trim(a) ==
    IF Len(a.states) > MaxStates
    THEN [states |-> <<>>, generation |-> a.generation + 1]
    ELSE a

\* resolve: a cursor of an earlier generation interns the stacks it kept.
Renewed(made, cursor) ==
    [a |-> made.a,
     cursor |-> [cursor EXCEPT !.state = made.id, !.generation = made.a.generation]]

Resolve(a, cursor) ==
    IF cursor.generation = a.generation
    THEN [a |-> a, cursor |-> cursor]
    ELSE Renewed(Intern(a, cursor.stacks), cursor)

\* The loop of advance over the bytes; a dead state ends it.
StepAll(g, a, id, bytes) ==
    FoldLeft(LAMBDA at, byte : IF at.id = Dead THEN at ELSE Step(g, at.a, at.id, byte),
             [a |-> a, id |-> id], bytes)

\* Mutant: the cursor moves but keeps the stacks it came from.
MovedKeepsStacks(cursor, last) ==
    [a |-> last.a, ok |-> last.id # Dead,
     cursor |-> IF last.id = Dead THEN cursor ELSE [cursor EXCEPT !.state = last.id]]

\* The cursor after the loop ended at last.
Moved(cursor, last) ==
    [a |-> last.a, ok |-> last.id # Dead,
     cursor |-> IF last.id = Dead THEN cursor
                ELSE [cursor EXCEPT !.state = last.id,
                                    !.stacks = last.a.states[last.id].stacks]]

Advance(g, a, cursor, bytes) ==
    LET at == Resolve(Trim(a), cursor)
    IN  Moved(at.cursor, StepAll(g, at.a, at.cursor.state, bytes))

\* TokenIndex: a trie whose nodes are the prefixes of the tokens that decode to
\* something; edges leave a node in byte order.
TrieNodes == UNION {{SubSeq(TokenBytes[id], 1, n) : n \in 0 .. Len(TokenBytes[id])} : id \in Tokens}
TokensAt(node) == {id \in Tokens : TokenBytes[id] = node /\ node # <<>>}
EdgesOf(node) ==
    SetToSortSeq({byte \in Bytes : Append(node, byte) \in TrieNodes}, LAMBDA b, c : b < c)

\* compute_mask: a walk of the trie from the state; at.pending is a stack.
Pushed(pending, node, step) ==
    [a |-> step.a,
     pending |-> IF step.id = Dead THEN pending
                 ELSE Append(pending, [node |-> node, id |-> step.id])]

RECURSIVE Walk(_, _, _)
Walk(g, at, mask) ==
    IF at.pending = <<>> THEN [a |-> at.a, mask |-> mask]
    ELSE LET node == Last(at.pending).node
             id   == Last(at.pending).id
         IN  Walk(g,
                  FoldLeft(LAMBDA acc, byte :
                               Pushed(acc.pending, Append(node, byte), Step(g, acc.a, id, byte)),
                           [a |-> at.a, pending |-> Front(at.pending)], EdgesOf(node)),
                  mask \cup TokensAt(node))

ComputeMask(g, a, id) == Walk(g, [a |-> a, pending |-> <<[node |-> <<>>, id |-> id]>>], {})

\* The part apply_mask and allows share: trim, resolve, and fill the state's mask.
Remembered(cursor, made) ==
    [a |-> [made.a EXCEPT !.states[cursor.state].masked = TRUE,
                          !.states[cursor.state].mask = made.mask],
     cursor |-> cursor, mask |-> made.mask]

FillMask(g, at) ==
    LET id == at.cursor.state
    IN  IF at.a.states[id].masked
        THEN [a |-> at.a, cursor |-> at.cursor, mask |-> at.a.states[id].mask]
        ELSE Remembered(at.cursor, ComputeMask(g, at.a, id))

Masked(g, a, cursor) == FillMask(g, Resolve(Trim(a), cursor))

-----------------------------------------------------------------------------
(* The backend's use of the automata.                                         *)

NoRequest == [grammar |-> 0, cursor |-> [stacks |-> {}, state |-> 0, generation |-> -1]]
Cached == {g \in Grammars : automata[g] # NoAutomaton}
InUse == {requests[r].grammar : r \in {r \in Requests : mirror[r].phase = "running"}}

GrammarInit ==
    /\ automata = [g \in Grammars |-> NoAutomaton]
    /\ requests = [r \in Requests |-> NoRequest]
    /\ mirror = [r \in Requests |-> [phase |-> "new", output |-> <<>>]]

\* A schema whose grammar does not build is refused before it is submitted.
Refuse(r, g) ==
    /\ mirror[r].phase = "new"
    /\ ~Builds(g)
    /\ mirror' = [mirror EXCEPT ![r].phase = "refused"]
    /\ requests' = [requests EXCEPT ![r].grammar = g]
    /\ UNCHANGED automata

\* retain keeps the automata that requests hold when the map is full.
Retained ==
    IF Cardinality(Cached) >= MaxAutomata
    THEN [g \in Grammars |-> IF g \in InUse THEN automata[g] ELSE NoAutomaton]
    ELSE automata

\* admit_tokenized: the automaton of the grammar, new or shared, and a cursor.
Admit(r, g) ==
    /\ mirror[r].phase = "new"
    /\ Builds(g)
    /\ LET a     == IF Retained[g] = NoAutomaton THEN NewAutomaton ELSE Retained[g]
           made  == Intern(a, StartStacks(g))
       IN  /\ automata' = [Retained EXCEPT ![g] = made.a]
           /\ requests' = [requests EXCEPT ![r] =
                [grammar |-> g,
                 cursor |-> [stacks |-> StartStacks(g), state |-> made.id,
                             generation |-> a.generation]]]
           /\ mirror' = [mirror EXCEPT ![r].phase = "running"]

\* What accepting a token does to the request: Eos ends it, and a token the
\* automaton refuses is the error "sampled token left its grammar".
Accept(r, a, cursor, token) ==
    LET g == requests[r].grammar IN
    \E move \in {Advance(g, a, cursor, TokenBytes[token])} :
        /\ Len(mirror[r].output) + Len(TokenBytes[token]) <= MaxOutput
        /\ move.a.generation <= MaxGeneration
        /\ automata' = [automata EXCEPT ![g] = move.a]
        /\ requests' = [requests EXCEPT ![r].cursor = move.cursor]
        /\ mirror' = [mirror EXCEPT ![r] =
                [phase |-> CASE ~move.ok -> "left"
                             [] token \in Eos -> "ended"
                             [] OTHER -> "running",
                 output |-> @.output \o TokenBytes[token]]]

\* The device's greedy choice stands when the grammar admits it.
TakeDeviceToken(r, token) ==
    /\ mirror[r].phase = "running"
    /\ token \notin Eos
    /\ \E masked \in {Masked(requests[r].grammar, automata[requests[r].grammar],
                               requests[r].cursor)} :
           /\ token \in masked.mask
           /\ Accept(r, masked.a, masked.cursor, token)

\* Mutant: end-of-sequence is never masked.
AllowedAlways(complete, mask) == mask \cup Eos

\* End-of-sequence is allowed in a complete sentence, and when nothing else is.
Allowed(complete, mask) == IF complete \/ mask = {} THEN mask \cup Eos ELSE mask

\* The full path: is_accepting, apply_mask, then any allowed token is sampled.
\* refused: allows was asked first, and the device's choice did not stand.
SampleMasked(r, refused, token) ==
    /\ mirror[r].phase = "running"
    /\ LET g == requests[r].grammar IN
       \E before \in {IF refused THEN Masked(g, automata[g], requests[r].cursor)
                      ELSE [a |-> automata[g], cursor |-> requests[r].cursor, mask |-> {}]} :
       \E at \in {Resolve(before.a, before.cursor)} :
       \E masked \in {Masked(g, at.a, at.cursor)} :
           /\ refused => ~((Tokens \ Eos) \subseteq before.mask)
           /\ token \in Allowed(at.a.states[at.cursor.state].accepting, masked.mask)
           /\ Accept(r, masked.a, masked.cursor, token)

\* The request ends by its token bound or a cancellation; its state is dropped.
Leave(r) ==
    /\ mirror[r].phase = "running"
    /\ mirror' = [mirror EXCEPT ![r].phase = "gone"]
    /\ UNCHANGED <<automata, requests>>

GrammarNext ==
    \E r \in Requests :
        \/ \E g \in Grammars : Refuse(r, g) \/ Admit(r, g)
        \/ \E token \in Tokens : 
            \/ TakeDeviceToken(r, token)
            \/ \E refused \in BOOLEAN : SampleMasked(r, refused, token)
        \/ Leave(r)

GrammarSpec == GrammarInit /\ [][GrammarNext]_grammarVars

-----------------------------------------------------------------------------
(* The reference: the sentences of a grammar as a least fixed point of its    *)
(* rules over strings of bounded length, without stacks, states or tries.     *)

Joined(left, right) ==
    {s \in {l \o t : l \in left, t \in right} : Len(s) <= Horizon}

\* The strings a sequence of elements derives, given those of the rules.
Derived(known, elements) ==
    FoldLeft(LAMBDA acc, e : Joined(acc, IF e.kind = "bytes" THEN {<<b>> : b \in e.class}
                                         ELSE known[e.rule]),
             {<<>>}, elements)

RECURSIVE Closed(_, _)
Closed(g, known) ==
    LET next == [r \in Rules(g) |-> UNION {Derived(known, g.rules[r][a]) : a \in DOMAIN g.rules[r]}]
    IN  IF next = known THEN known ELSE Closed(g, next)

Sentences ==
    [g \in {g \in Grammars : ~Malformed(g)} |-> Closed(g, [r \in Rules(g) |-> {}])[g.start]]

Begins == [g \in DOMAIN Sentences |-> UNION {Prefixes(s) : s \in Sentences[g]}]

\* The rules that derivations of the rules in from may have as first symbol.
FirstRules(g, from) ==
    LET empty(e) == e.kind = "rule" /\ <<>> \in Closed(g, [r \in Rules(g) |-> {}])[e.rule]
    IN  {q \in Rules(g) : \E r \in from : \E a \in DOMAIN g.rules[r] :
            \E i \in DOMAIN g.rules[r][a] :
                /\ g.rules[r][a][i] = [kind |-> "rule", rule |-> q]
                /\ \A j \in 1 .. i - 1 : empty(g.rules[r][a][j])}

RECURSIVE Below(_, _)
Below(g, reached) ==
    LET next == reached \cup FirstRules(g, reached)
    IN  IF next = reached THEN reached ELSE Below(g, next)

BeginsWithItself ==
    [g \in DOMAIN Sentences |-> \E r \in Rules(g) : r \in Below(g, FirstRules(g, {r}))]

\* Tokens whose bytes some sentence continues the output with.
Continuing(g, output) ==
    {id \in Tokens : TokenBytes[id] # <<>> /\ output \o TokenBytes[id] \in Begins[g]}

\* A constrained request generates sentences of its grammar, whichever requests
\* share its automaton and however often the state table was dropped: no sampled
\* token leaves the grammar, the output begins a sentence, and end-of-sequence
\* comes after a whole one, or where the vocabulary or the stack bound lets
\* nothing follow.  Exactly the grammars expand would loop on are refused.
OutputInGrammar ==
    \A r \in Requests : mirror[r].phase # "new" =>
        LET g == requests[r].grammar
            stacks == requests[r].cursor.stacks
        IN  IF mirror[r].phase = "refused"
            THEN g \in DOMAIN Sentences => BeginsWithItself[g]
            ELSE /\ ~BeginsWithItself[g]
                 /\ mirror[r].phase # "left"
                 /\ mirror[r].output \in Begins[g]
                 /\ <<>> \in stacks => mirror[r].output \in Sentences[g]
                 /\ mirror[r].phase = "ended" =>
                        \/ mirror[r].output \in Sentences[g]
                        \/ Continuing(g, mirror[r].output) = {}
                        \/ \E s \in stacks : Len(s) + 1 >= MaxStackDepth

\* Whoever filled them, the caches of an automaton say what the grammar says: a
\* cursor of the current generation is at the state of its own stacks, a cached
\* transition is the one advance_stacks computes, and a cached mask holds the
\* tokens whose bytes lead somewhere.
CachesExact ==
    LET Run(g, stacks, bytes) ==
            FoldLeft(LAMBDA at, byte : AdvanceStacks(g, at, byte), stacks, bytes)
    IN  /\ \A r \in Requests : mirror[r].phase = "running" =>
            LET a == automata[requests[r].grammar]
                c == requests[r].cursor
            IN  /\ c.generation <= a.generation
                /\ c.generation = a.generation =>
                    c.state \in DOMAIN a.states /\ a.states[c.state].stacks = c.stacks
        /\ \A g \in Cached : \A i \in DOMAIN automata[g].states :
            LET s == automata[g].states[i]
            IN  /\ IdsOf(automata[g], s.stacks) = {i}
                /\ \A byte \in Bytes : s.next[byte] # Unknown =>
                    AdvanceStacks(g, s.stacks, byte) =
                        IF s.next[byte] = Dead THEN {} ELSE automata[g].states[s.next[byte]].stacks
                /\ s.masked => s.mask = {id \in Tokens : TokenBytes[id] # <<>>
                                            /\ Run(g, s.stacks, TokenBytes[id]) # {}}
=============================================================================
