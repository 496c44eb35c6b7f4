----------------------------- MODULE Generation -----------------------------
(***************************************************************************)
(* The state of one generation request (generation.rs): the tokens it has  *)
(* accepted, the text already shown, and the bytes withheld because they   *)
(* may begin a stop string or are not yet UTF-8.  Tokens decode to chunks  *)
(* of bytes that respect neither characters nor stop strings.              *)
(*                                                                         *)
(* TextBytes are ASCII characters, a lead byte with its continuation byte, *)
(* and a byte that UTF-8 never has.  raw and gate record what was          *)
(* accepted, for the properties; the code keeps neither.                   *)
(***************************************************************************)
EXTENDS Naturals, Sequences, SequencesExt, FiniteSetsExt

CONSTANTS
    Ascii, Lead, Continuation, Invalid, \* the bytes
    TokenTexts, \* what tokens decode to
    GenerationRequests \* [stops, min, max]: stop_strings, min_new_tokens, max_new_tokens

TextBytes == Ascii \union {Lead, Continuation, Invalid}

ASSUME TextAssumption == TokenTexts \subseteq Seq(TextBytes)

\* GenerationRequest::validate.
ASSUME RequestAssumption ==
    \A q \in GenerationRequests :
        /\ q \in [stops : Seq(Seq(TextBytes)), min : Nat, max : Nat]
        /\ q.min <= q.max
        /\ \A i \in DOMAIN q.stops : q.stops[i] # <<>>

VARIABLES
    request,
    shown, pending,  \* StopState: text, and the bytes withheld from it
    searchStart,     \* StopState::stop_search_start
    matched,         \* matched_stop_string_index, 0 for none
    generated,       \* number of tokens accepted
    finish,          \* finish_reason, or "none"
    raw,             \* every byte decoded so far
    gate             \* how many of them while stops were disabled

generationVars == <<request, shown, pending, searchStart, matched, generated, finish, raw, gate>>

Prefix(s, n) == SubSeq(s, 1, n)
Suffix(s, n) == SubSeq(s, Len(s) - n + 1, Len(s))

\* Complete UTF-8.
Utf8(s) ==
    \A i \in DOMAIN s :
        /\ s[i] # Invalid
        /\ s[i] = Lead => i < Len(s) /\ s[i + 1] = Continuation
        /\ s[i] = Continuation => i > 1 /\ s[i - 1] = Lead

\* str::from_utf8 and valid_up_to.
ValidUpTo(s) == Max({n \in 0..Len(s) : Utf8(Prefix(s, n))})

-----------------------------------------------------------------------------
(* StopState. *)

\* Stop string i occurs in s behind the first n bytes.
Occurs(i, s, n) ==
    /\ n + Len(request.stops[i]) <= Len(s)
    /\ SubSeq(s, n + 1, n + Len(request.stops[i])) = request.stops[i]

StopMatches(s, from) ==
    {m \in [start : from..Len(s), stop : DOMAIN request.stops] : Occurs(m.stop, s, m.start)}

MatchEnd(m) == m.start + Len(request.stops[m.stop])

\* first_stop_match: earliest end, then earliest start, then request order; the
\* set is empty or has one element.
FirstStopMatch(s, from) ==
    {m \in StopMatches(s, from) : \A k \in StopMatches(s, from) :
        \/ MatchEnd(m) < MatchEnd(k)
        \/ MatchEnd(m) = MatchEnd(k) /\ m.start < k.start
        \/ MatchEnd(m) = MatchEnd(k) /\ m.start = k.start /\ m.stop <= k.stop}

\* Mutant: a stop string is withheld from its second byte on.
HeldBackLate(s, from) ==
    Max({0} \union {n \in 2..(Len(s) - from) : \E i \in DOMAIN request.stops :
        n < Len(request.stops[i]) /\ Suffix(s, n) = Prefix(request.stops[i], n)})

\* longest_stop_prefix_suffix.
LongestStopPrefixSuffix(s, from) ==
    Max({0} \union {n \in 1..(Len(s) - from) : \E i \in DOMAIN request.stops :
        n < Len(request.stops[i]) /\ Suffix(s, n) = Prefix(request.stops[i], n)})

\* emit_prefix of the first n bytes of s, whose tail stays withheld.
EmitPrefix(s, n) ==
    /\ shown' = shown \o Prefix(s, n)
    /\ pending' = SubSeq(s, n + 1, Len(s))

SearchStartAfter(n) == IF searchStart > n THEN searchStart - n ELSE 0

\* finish_pending: what is UTF-8 is shown, the rest stays in pending for ever.
FinishPending ==
    LET n == ValidUpTo(pending) IN
    EmitPrefix(pending, n) /\ searchStart' = SearchStartAfter(n)

StopConditionsEnabled == generated >= request.min

\* push without a match: everything is shown but a possible stop string and what
\* follows the first byte that is not UTF-8.  TextBytes withheld while stops are
\* disabled are never searched.
PushText(s, flush) ==
    LET held == IF flush \/ ~StopConditionsEnabled THEN 0
                ELSE LongestStopPrefixSuffix(s, searchStart)
        n == ValidUpTo(Prefix(s, Len(s) - held))
    IN  /\ EmitPrefix(s, n)
        /\ searchStart' = IF StopConditionsEnabled THEN SearchStartAfter(n) ELSE Len(s) - n
        /\ UNCHANGED matched

\* push with a match: the bytes before it stay.
PushMatch(s, m) ==
    LET n == ValidUpTo(Prefix(s, m.start)) IN
    /\ EmitPrefix(Prefix(s, m.start), n)
    /\ searchStart' = SearchStartAfter(n)
    /\ matched' = m.stop

-----------------------------------------------------------------------------
(* GenerationState. *)

\* accept_token of a token that decodes to visible bytes; while stops are disabled
\* this includes end and stop tokens.
AcceptToken(bytes) ==
    /\ finish = "none"
    /\ LET s == pending \o bytes
           match == IF StopConditionsEnabled THEN FirstStopMatch(s, searchStart) ELSE {}
           last == generated + 1 = request.max
       IN  IF match # {}
           THEN \E m \in match : PushMatch(s, m) /\ finish' = "stop_string"
           ELSE PushText(s, last) /\ finish' = IF last THEN "length" ELSE "none"
    /\ generated' = generated + 1
    /\ raw' = raw \o bytes
    /\ gate' = IF StopConditionsEnabled THEN gate ELSE Len(raw')
    /\ UNCHANGED request

\* accept_token of an end or stop token, which stays hidden, and cancel.
EndGeneration(reason) ==
    /\ finish = "none"
    /\ reason # "cancelled" => StopConditionsEnabled
    /\ FinishPending
    /\ generated' = IF reason = "cancelled" THEN generated ELSE generated + 1
    /\ finish' = reason
    /\ UNCHANGED <<request, matched, raw, gate>>

\* mark_failed, also over another reason, or a token that accept_token refuses: text
\* and bytes stay as they are.
MarkFailed ==
    /\ finish # "error"
    /\ finish' = "error"
    /\ UNCHANGED <<request, shown, pending, searchStart, matched, generated, raw, gate>>

GenerationInit ==
    /\ request \in GenerationRequests
    /\ shown = <<>> /\ pending = <<>> /\ searchStart = 0 /\ matched = 0 /\ generated = 0
    /\ finish = IF request.max = 0 THEN "length" ELSE "none"
    /\ raw = <<>> /\ gate = 0

GenerationNext ==
    \/ \E bytes \in TokenTexts : AcceptToken(bytes)
    \/ \E reason \in {"eos", "stop_token", "cancelled"} : EndGeneration(reason)
    \/ MarkFailed

GenerationSpec == GenerationInit /\ [][GenerationNext]_generationVars

-----------------------------------------------------------------------------
(* Properties. *)

\* Ends of stop strings in everything decoded since stops were enabled.
StopEnds ==
    {n \in 0..Len(raw) : \E i \in DOMAIN request.stops :
        /\ Len(request.stops[i]) <= n - gate
        /\ Suffix(Prefix(raw, n), Len(request.stops[i])) = request.stops[i]}

Kept == Len(shown) + Len(pending)

\* Generation ends at the first byte that completes a stop string, for the stop
\* string that starts first and then comes first in the request, "making the result
\* independent of decoded-token chunking"; a string that began while stops were
\* disabled "is not reactivated later" (first_stop_match, stop_search_start).
StopsWhereReferenceStops ==
    IF matched = 0 THEN StopEnds = {}
    ELSE /\ Occurs(matched, raw, Kept) /\ Kept >= gate
         /\ Kept + Len(request.stops[matched]) = Min(StopEnds)
         /\ \A i \in DOMAIN request.stops :
               LET start == Min(StopEnds) - Len(request.stops[i]) IN
               start >= gate /\ Occurs(i, raw, start) =>
                   start > Kept \/ (start = Kept /\ i >= matched)

\* TextBytes at the end that the right next bytes would complete to a stop string.
Ambiguous ==
    {n \in 1..(Len(raw) - gate) : \E i \in DOMAIN request.stops :
        n < Len(request.stops[i]) /\ IsPrefix(Suffix(raw, n), request.stops[i])}

\* No byte is lost, reordered or shown too early or too late: shown and withheld
\* bytes are what was decoded up to the stop string, the shown ones are UTF-8, and
\* all UTF-8 is shown except the longest tail that may still become a stop string,
\* which is shown when generation ends otherwise (process_pending, finish_pending).
ShownIsReference ==
    LET held == IF finish # "none" THEN 0 ELSE Max({0} \union Ambiguous) IN
    /\ IsPrefix(shown \o pending, raw) /\ (matched = 0 => Kept = Len(raw))
    /\ finish # "error" => Len(shown) = ValidUpTo(Prefix(raw, Kept - held))
    /\ Utf8(shown)

\* Token by token, push decides and shows what the reference does on the whole
\* text at once, wherever the token boundaries fall in stop strings and characters.
OutputIsReference == StopsWhereReferenceStops /\ ShownIsReference
=============================================================================
