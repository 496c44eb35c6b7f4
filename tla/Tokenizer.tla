------------------------------- MODULE Tokenizer -------------------------------
(***************************************************************************)
(* How SmolLm2Tokenizer::encode turns text into tokens: it cuts the text   *)
(* at the added tokens, a hand-written scanner cuts what is between them   *)
(* into the pieces of the profile's regular expression, and each piece is  *)
(* merged by rank with a heap of candidate pairs over a doubly linked list *)
(* of nodes, in which stale candidates are skipped when they are popped.   *)
(*                                                                         *)
(* A character stands for its class; the contraction 's stands for all of  *)
(* them; a token is its text, since the vocabulary is a bijection.  NFC    *)
(* and the byte alphabet change characters one by one and are left out.    *)
(***************************************************************************)
EXTENDS Naturals, SequencesExt, FiniteSetsExt

CONSTANTS
    Cases,      \* what is encoded: [profile, merges, input]
    Added,      \* the texts of the added tokens
    NoToken

Letters == {"a", "s"}
Numbers == {"1"}
Newlines == {"n"}
White == {" ", "n"}
Others == {"'"}
Characters == Letters \union Numbers \union White \union Others

\* Merge tables are trained: the parts of a merge are characters or the results
\* of merges of lower rank.
Trained(merges) ==
    \A k \in DOMAIN merges : \A part \in {merges[k][1], merges[k][2]} :
        Len(part) = 1 \/ \E j \in 1..(k - 1) : merges[j][1] \o merges[j][2] = part

ASSUME CasesAssumption == \A c \in Cases : Trained(c.merges)
ASSUME AddedAssumption == <<>> \notin Added

VARIABLES
    case,       \* the tokenizer's profile, its merges and the input
    cursor,     \* where encode has got to in the input
    pieces,     \* the pieces before the added token that are not encoded yet
    added,      \* the added token that follows them
    nodes,      \* the nodes of the piece that is being merged
    heap,       \* its candidates <<rank, left, right>>
    output      \* the tokens so far

tokenizerVars == <<case, cursor, pieces, added, nodes, heap, output>>

-----------------------------------------------------------------------------
(* The scanners.  Positions count from 1; an end is the position after.     *)

\* consume_while: the end of the run of characters of C that starts at i.
RunEnd(s, i, C) == Min({j \in i..(Len(s) + 1) : j = Len(s) + 1 \/ s[j] \notin C})

IsContraction(s, i) == i < Len(s) /\ s[i] = "'" /\ s[i + 1] = "s"

\* A run of whitespace leaves its last character to the text that follows it.
ConsumeWhitespace(s, i) ==
    LET end == RunEnd(s, i, White)
    IN  IF end <= Len(s) /\ end > i + 1 THEN end - 1 ELSE end

Category(c) == CHOOSE C \in {Letters, Numbers, Others} : c \in C

NextGpt2PieceEnd(s, i) ==
    CASE IsContraction(s, i) -> i + 2
      [] ~IsContraction(s, i) /\ s[i] = " " /\ i < Len(s) /\ s[i + 1] \notin White ->
             RunEnd(s, i + 1, Category(s[i + 1]))
      [] s[i] \in White /\ ~(s[i] = " " /\ i < Len(s) /\ s[i + 1] \notin White) ->
             ConsumeWhitespace(s, i)
      [] OTHER -> RunEnd(s, i, Category(s[i]))

\* Each alternative's end, or i where it does not match.
WordEnd(s, i) ==
    LET start == IF s[i] \in Letters \union Numbers \union Newlines THEN i ELSE i + 1
    IN  IF start <= Len(s) /\ s[start] \in Letters THEN RunEnd(s, start, Letters) ELSE i

NumberEnd(s, i, maximumRun) == Min({RunEnd(s, i, Numbers), i + maximumRun})

PunctuationEnd(s, i) ==
    LET start == IF s[i] = " " THEN i + 1 ELSE i
        end == RunEnd(s, start, Others)
    IN  IF end = start THEN i ELSE RunEnd(s, end, Newlines)

NewlineWhitespaceEnd(s, i) ==
    Max({i} \union {j + 1 : j \in {k \in i..(RunEnd(s, i, White) - 1) : s[k] \in Newlines}})

NextSplitPieceEnd(s, i, maximumRun) ==
    LET ends == <<IF IsContraction(s, i) THEN i + 2 ELSE i,
                  WordEnd(s, i),
                  NumberEnd(s, i, maximumRun),
                  PunctuationEnd(s, i),
                  NewlineWhitespaceEnd(s, i),
                  ConsumeWhitespace(s, i)>>
    IN  ends[SelectInSeq(ends, LAMBDA end : end > i)]

PieceEnd(profile, s, i) ==
    CASE profile = "SmolLm2" -> NextGpt2PieceEnd(s, i)
      [] profile = "Qwen2" -> NextSplitPieceEnd(s, i, 1)
      [] profile = "Llama3" -> NextSplitPieceEnd(s, i, 3)

RECURSIVE PiecesFrom(_, _, _)
PiecesFrom(profile, s, i) ==
    IF i > Len(s) THEN <<>>
    ELSE LET end == PieceEnd(profile, s, i)
         IN  <<SubSeq(s, i, end - 1)>> \o PiecesFrom(profile, s, end)

\* SmolLm2 makes every digit a segment of its own before it looks for pieces.
RECURSIVE SplitIndividualDecimalDigits(_)
SplitIndividualDecimalDigits(s) ==
    IF s = <<>> THEN <<>>
    ELSE LET end == IF Head(s) \in Numbers THEN 2 ELSE RunEnd(s, 1, Characters \ Numbers)
         IN  <<SubSeq(s, 1, end - 1)>>
             \o SplitIndividualDecimalDigits(SubSeq(s, end, Len(s)))

Pieces(profile, s) ==
    IF profile = "SmolLm2"
    THEN FlattenSeq([k \in DOMAIN SplitIndividualDecimalDigits(s) |->
                        PiecesFrom(profile, SplitIndividualDecimalDigits(s)[k], 1)])
    ELSE PiecesFrom(profile, s, 1)

-----------------------------------------------------------------------------
(* Added tokens.                                                            *)

MatchesAt(s, i) == {t \in Added : IsPrefix(t, SubSeq(s, i, Len(s)))}

\* The trie remembers the last terminal it passed: the longest text at i.
LongestAt(s, i) == CHOOSE t \in MatchesAt(s, i) : \A u \in MatchesAt(s, i) : Len(u) <= Len(t)

NextMatch(s, i) == {j \in i..Len(s) : MatchesAt(s, j) # {}}

-----------------------------------------------------------------------------
(* Merging.                                                                 *)

Rank(merges, left, right) == {k \in DOMAIN merges : merges[k] = <<left, right>>}

\* push_candidate: the pair of nodes <<left, right>> with its rank, if it has one.
Candidates(ns, left, right) ==
    {<<rank, left, right>> : rank \in Rank(case.merges, ns[left].text, ns[right].text)}

\* The heap orders candidates by rank and then from left to right.
IsBest(candidate) ==
    \A other \in heap :
        \/ candidate[1] < other[1]
        \/ candidate[1] = other[1] /\ candidate[2] < other[2]
        \/ candidate[1] = other[1] /\ candidate[2] = other[2] /\ candidate[3] <= other[3]

\* Mutant: a candidate whose nodes have grown is taken for the pair it was.
CandidateIsAdjacent(candidate) ==
    LET left == candidate[2] right == candidate[3]
    IN  nodes[left].alive /\ nodes[left].next = right /\ nodes[right].alive

CandidateIsCurrent(candidate) ==
    LET left == candidate[2] right == candidate[3]
    IN  /\ nodes[left].alive /\ nodes[left].next = right
        /\ nodes[right].alive
        /\ candidate \in Candidates(nodes, left, right)

Merged(left, right) ==
    [k \in DOMAIN nodes |->
        CASE k = left -> [nodes[k] EXCEPT !.text = @ \o nodes[right].text,
                                          !.next = nodes[right].next]
          [] k = right -> [text |-> <<>>, previous |-> 0, next |-> 0, alive |-> FALSE]
          [] k = nodes[right].next -> [nodes[k] EXCEPT !.previous = left]
          [] OTHER -> nodes[k]]

\* The nodes of a piece: one for each character, linked both ways, 0 for none.
Nodes(piece) ==
    [k \in DOMAIN piece |->
        [text |-> <<piece[k]>>, previous |-> k - 1,
         next |-> IF k = Len(piece) THEN 0 ELSE k + 1, alive |-> TRUE]]

\* The texts from node k on, along the links.
RECURSIVE Texts(_)
Texts(k) ==
    IF k = 0 THEN <<>>
    ELSE (IF nodes[k].alive THEN <<nodes[k].text>> ELSE <<>>) \o Texts(nodes[k].next)

Vocabulary(merges) ==
    {<<c>> : c \in Characters} \union {merges[k][1] \o merges[k][2] : k \in DOMAIN merges}

-----------------------------------------------------------------------------

TokenizerInit ==
    /\ case \in Cases
    /\ cursor = 1 /\ pieces = <<>> /\ added = NoToken
    /\ nodes = <<>> /\ heap = {} /\ output = <<>>

Ready == nodes = <<>> /\ pieces = <<>>

\* encode looks for the next added token and splits the text before it.
NextSegment ==
    /\ Ready /\ added = NoToken /\ cursor <= Len(case.input)
    /\ LET found == NextMatch(case.input, cursor)
           start == Min(found)
           token == LongestAt(case.input, start)
       IN  IF found = {}
           THEN /\ pieces' = Pieces(case.profile, SubSeq(case.input, cursor, Len(case.input)))
                /\ cursor' = Len(case.input) + 1
                /\ UNCHANGED added
           ELSE /\ pieces' = Pieces(case.profile, SubSeq(case.input, cursor, start - 1))
                /\ added' = token
                /\ cursor' = start + Len(token)
    /\ UNCHANGED <<case, nodes, heap, output>>

PushAdded ==
    /\ Ready /\ added # NoToken
    /\ output' = Append(output, added)
    /\ added' = NoToken
    /\ UNCHANGED <<case, cursor, pieces, nodes, heap>>

\* Llama 3 takes a piece that is a token whatever the merges would make of it.
IsWhole(piece) == case.profile = "Llama3" /\ piece \in Vocabulary(case.merges)

TakeWhole ==
    /\ nodes = <<>> /\ pieces # <<>> /\ IsWhole(Head(pieces))
    /\ output' = Append(output, Head(pieces))
    /\ pieces' = Tail(pieces)
    /\ UNCHANGED <<case, cursor, added, nodes, heap>>

StartBpe ==
    /\ nodes = <<>> /\ pieces # <<>> /\ ~IsWhole(Head(pieces))
    /\ nodes' = Nodes(Head(pieces))
    /\ heap' = UNION {Candidates(nodes', left, left + 1) : left \in 1..(Len(Head(pieces)) - 1)}
    /\ pieces' = Tail(pieces)
    /\ UNCHANGED <<case, cursor, added, output>>

PopCandidate ==
    \E candidate \in heap :
        /\ IsBest(candidate)
        /\ LET left == candidate[2] right == candidate[3]
           IN  IF CandidateIsCurrent(candidate)
               THEN /\ nodes' = Merged(left, right)
                    /\ heap' = (heap \ {candidate})
                               \union UNION {Candidates(nodes', k, left) : k \in {nodes'[left].previous} \ {0}}
                               \union UNION {Candidates(nodes', left, k) : k \in {nodes'[left].next} \ {0}}
               ELSE heap' = heap \ {candidate} /\ UNCHANGED nodes
        /\ UNCHANGED <<case, cursor, pieces, added, output>>

PushTokens ==
    /\ nodes # <<>> /\ heap = {}
    /\ output' = output \o Texts(1)
    /\ nodes' = <<>>
    /\ UNCHANGED <<case, cursor, pieces, added, heap>>

Done == Ready /\ added = NoToken /\ cursor > Len(case.input)

Returned == Done /\ UNCHANGED tokenizerVars

TokenizerNext == NextSegment \/ PushAdded \/ TakeWhole \/ StartBpe \/ PopCandidate \/ PushTokens \/ Returned

TokenizerSpec == TokenizerInit /\ [][TokenizerNext]_tokenizerVars

-----------------------------------------------------------------------------
(* What the tokenizer stands for.                                           *)

\* The alternatives of the profiles' regular expressions: w is s[i], ..., s[j - 1].
Matches(profile, alternative, s, i, j) ==
    LET w == SubSeq(s, i, j - 1)
        Only(C, v) == v # <<>> /\ ToSet(v) \subseteq C
        Prefixed(C, v) == \/ Only(C, v)
                          \/ Len(v) > 1 /\ Head(v) = " " /\ Only(C, Tail(v))
        beforeText == j <= Len(s) /\ s[j] \notin White
        maximumRun == IF profile = "Qwen2" THEN 1 ELSE 3
    IN  CASE alternative = "contraction" -> w = <<"'", "s">>
          [] alternative = "word" ->
                 \/ Only(Letters, w)
                 \/ /\ Len(w) > 1 /\ Only(Letters, Tail(w))
                    /\ IF profile = "SmolLm2" THEN Head(w) = " "
                       ELSE Head(w) \in Others \union (White \ Newlines)
          [] alternative = "number" ->
                 IF profile = "SmolLm2" THEN Prefixed(Numbers, w)
                 ELSE Only(Numbers, w) /\ Len(w) <= maximumRun
          [] alternative = "other" ->
                 \E k \in 1..Len(w) :
                    /\ Prefixed(Others, SubSeq(w, 1, k))
                    /\ k < Len(w) => profile # "SmolLm2" /\ Only(Newlines, SubSeq(w, k + 1, Len(w)))
          [] alternative = "newlines" ->
                 profile # "SmolLm2" /\ Only(White, w) /\ Last(w) \in Newlines
          [] alternative = "trailing" -> Only(White, w) /\ ~beforeText
          [] alternative = "space" -> Only(White, w)

Alternatives == <<"contraction", "word", "number", "other", "newlines", "trailing", "space">>

\* A piece is the longest match of the first alternative that matches at all.
RECURSIVE SplitByRegex(_, _, _)
SplitByRegex(profile, s, i) ==
    IF i > Len(s) THEN <<>>
    ELSE LET Ends(k) == {j \in (i + 1)..(Len(s) + 1) : Matches(profile, Alternatives[k], s, i, j)}
             end == Max(Ends(Min({k \in DOMAIN Alternatives : Ends(k) # {}})))
         IN  <<SubSeq(s, i, end - 1)>> \o SplitByRegex(profile, s, end)

\* Byte-pair encoding as it is defined: as long as some pair of neighbours has
\* a rank, every occurrence of the pair of lowest rank is merged, left to right.
RECURSIVE MergeAll(_, _)
MergeAll(tokens, pair) ==
    CASE Len(tokens) < 2 -> tokens
      [] Len(tokens) >= 2 /\ <<tokens[1], tokens[2]>> = pair ->
             <<pair[1] \o pair[2]>> \o MergeAll(SubSeq(tokens, 3, Len(tokens)), pair)
      [] OTHER -> <<Head(tokens)>> \o MergeAll(Tail(tokens), pair)

RECURSIVE BytePairs(_, _)
BytePairs(merges, tokens) ==
    LET ranks == UNION {Rank(merges, tokens[k], tokens[k + 1]) : k \in 1..(Len(tokens) - 1)}
    IN  IF ranks = {} THEN tokens ELSE BytePairs(merges, MergeAll(tokens, merges[Min(ranks)]))

EncodedPiece(c, piece) ==
    IF c.profile = "Llama3" /\ piece \in Vocabulary(c.merges) THEN <<piece>>
    ELSE BytePairs(c.merges, [k \in DOMAIN piece |-> <<piece[k]>>])

EncodedText(c, s) ==
    LET split == IF c.profile = "SmolLm2"
                 THEN FlattenSeq([k \in DOMAIN SplitIndividualDecimalDigits(s) |->
                          SplitByRegex(c.profile, SplitIndividualDecimalDigits(s)[k], 1)])
                 ELSE SplitByRegex(c.profile, s, 1)
    IN  FlattenSeq([k \in DOMAIN split |-> EncodedPiece(c, split[k])])

RECURSIVE Encoded(_, _)
Encoded(c, s) ==
    LET found == NextMatch(s, 1)
        start == Min(found)
        token == LongestAt(s, start)
    IN  IF found = {} THEN EncodedText(c, s)
        ELSE EncodedText(c, SubSeq(s, 1, start - 1)) \o <<token>>
             \o Encoded(c, SubSeq(s, start + Len(token), Len(s)))

\* What encode returns is what the profile's regular expression and byte-pair
\* encoding define, although the scanner never backtracks and merge_bpe_nodes
\* merges one pair at a time from a heap with stale candidates; and no character
\* of the input is lost, repeated or moved.
EncodeIsReference ==
    Done => /\ output = Encoded(case, case.input)
            /\ FlattenSeq(output) = case.input

=============================================================================
