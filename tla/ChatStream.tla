------------------------------ MODULE ChatStream ------------------------------
(***************************************************************************)
(* How a streamed chat response finds the tool calls in the model's text:  *)
(* ToolStreamFilter holds back text that may be a call while ordinary text *)
(* goes out, and ChatChunkShaper ends the stream with the calls or with    *)
(* the text that was held back.  A response that is not streamed parses    *)
(* the whole text at once (chat_response).                                 *)
(*                                                                         *)
(* Text is a sequence of symbols: "<" "c" spell <tool_call>, "/" is        *)
(* </tool_call>, "<" "p" spell <|python_tag|>, ";" is the separator of     *)
(* Llama calls, "J" is a JSON call, "{" opens JSON that is none, " " is    *)
(* white space and "x" anything else.                                      *)
(***************************************************************************)
EXTENDS Naturals, SequencesExt, FiniteSetsExt

CONSTANTS
    Styles,     \* a subset of {"Hermes", "LlamaJson"}
    Chunks,     \* the texts an event may bring
    MaxChunks,  \* how many it may be
    NoCalls

Open == <<"<", "c">>
Tag == <<"<", "p">>

VARIABLES
    style,      \* how this model writes calls
    text,       \* all that the model has written
    chunks,     \* in how many events
    held,       \* ToolStreamFilter.held
    inCall,     \* ToolStreamFilter.in_call
    contentSeen,\* ToolStreamFilter.content_seen
    content,    \* what the client has received as content
    calls,      \* the calls of the last chunk, None before it and without any
    role,       \* how many chunks have named the assistant's role
    finished

chatVars == <<style, text, chunks, held, inCall, contentSeen, content, calls, role, finished>>

-----------------------------------------------------------------------------
(* Parsing of a whole text.                                                 *)

IsAt(s, word, i) == IsPrefix(word, SubSeq(s, i, Len(s)))
Found(s, word) == {i \in DOMAIN s : IsAt(s, word, i)}
From(s, i) == SubSeq(s, i, Len(s))
UpTo(s, i) == SubSeq(s, 1, i - 1)

\* Positions of what is neither leading nor trailing white space.
Solid(s) == {i \in DOMAIN s : s[i] # " "}
TrimStart(s) == IF Solid(s) = {} THEN <<>> ELSE From(s, Min(Solid(s)))
TrimEnd(s) == IF Solid(s) = {} THEN <<>> ELSE UpTo(s, Max(Solid(s)) + 1)
TrimBoth(s) == TrimStart(TrimEnd(s))

\* tool_call_from_json of the parsed text: a call, or no call.
IsCall(s) == TrimBoth(s) = <<"J">>

\* The calls of a Hermes text that starts with an opening tag, None if one of
\* them is malformed; a last call that was cut off counts only if it is the
\* first one and complete.
RECURSIVE HermesCalls(_, _)
HermesCalls(rest, sofar) ==
    IF Found(rest, Open) = {} THEN sofar
    ELSE LET body == From(rest, Min(Found(rest, Open)) + Len(Open))
             close == Found(body, <<"/">>)
         IN  IF close = {}
             THEN IF sofar > 0 THEN sofar ELSE IF IsCall(body) THEN 1 ELSE NoCalls
             ELSE IF IsCall(UpTo(body, Min(close)))
                  THEN HermesCalls(From(body, Min(close) + 1), sofar + 1)
                  ELSE NoCalls

\* The parts of s between separators.
RECURSIVE Parts(_)
Parts(s) ==
    IF Found(s, <<";">>) = {} THEN {s}
    ELSE {UpTo(s, Min(Found(s, <<";">>)))} \union Parts(From(s, Min(Found(s, <<";">>)) + 1))

LlamaCalls(s) ==
    LET trimmed == TrimBoth(s)
        body == IF IsPrefix(Tag, trimmed) THEN From(trimmed, Len(Tag) + 1) ELSE trimmed
    IN  IF \A part \in Parts(body) : IsCall(part)
        THEN Cardinality(Found(body, <<";">>)) + 1
        ELSE NoCalls

\* parse_tool_calls: the number of calls, which are told apart by their order.
ParseToolCalls(s) ==
    CASE style = "Hermes" -> IF Found(s, Open) = {} THEN NoCalls ELSE HermesCalls(s, 0)
      [] style = "LlamaJson" -> LlamaCalls(s)

\* The message of a response that is not streamed.
ChatResponse(s) ==
    LET parsed == ParseToolCalls(s)
    IN  [calls |-> parsed,
         content |-> IF parsed = NoCalls THEN s
                     ELSE IF style = "Hermes" THEN TrimEnd(UpTo(s, Min(Found(s, Open)))) ELSE <<>>]

-----------------------------------------------------------------------------
(* The stream filter.  A push yields what is shown and the filter after it. *)

State(h, c, seen, shown) == [held |-> h, inCall |-> c, seen |-> seen, shown |-> shown]

\* Mutant: a tag that two events bring is not recognised.
KeepNothing(s) == 0 * Len(s)

\* The longest end of s that may be the beginning of an opening tag.
Keep(s) == Max({0} \union {n \in 1..(Len(Open) - 1) : n <= Len(s) /\ IsSuffix(SubSeq(Open, 1, n), s)})

PushHermes(s) ==
    LET start == Min(Found(s, Open))
        shown == IF Found(s, Open) # {} THEN UpTo(s, start) ELSE UpTo(s, Len(s) - Keep(s) + 1)
    IN  State(From(s, Len(shown) + 1), Found(s, Open) # {}, contentSeen \/ shown # <<>>, shown)

MayBeCall(start) ==
    \/ start = <<>> \/ IsPrefix(start, Tag) \/ IsPrefix(Tag, start)
    \/ Head(start) \in {"{", "J"}

PushLlama(s) ==
    LET start == TrimStart(s)
    IN  IF ~contentSeen /\ MayBeCall(start)
        THEN State(s, ~IsPrefix(start, Tag), FALSE, <<>>)
        ELSE State(<<>>, FALSE, TRUE, s)

Push(chunk) ==
    LET s == held \o chunk
    IN  CASE inCall -> State(s, TRUE, contentSeen, <<>>)
          [] ~inCall /\ style = "Hermes" -> PushHermes(s)
          [] ~inCall /\ style = "LlamaJson" -> PushLlama(s)

-----------------------------------------------------------------------------

ChatInit ==
    /\ style \in Styles
    /\ text = <<>> /\ chunks = 0
    /\ held = <<>> /\ inCall = FALSE /\ contentSeen = FALSE
    /\ content = <<>> /\ calls = NoCalls /\ role = 0
    /\ finished = FALSE

\* The first chunk names the role.
NamesRole == IF role = 0 THEN 1 ELSE 0

\* shape_frame of a token's frame.
ShapeDelta(chunk) ==
    /\ ~finished /\ chunks < MaxChunks
    /\ chunks' = chunks + 1
    /\ text' = text \o chunk
    /\ LET after == Push(chunk)
       IN  /\ held' = after.held /\ inCall' = after.inCall /\ contentSeen' = after.seen
           /\ content' = content \o after.shown
    /\ role' = role + NamesRole
    /\ UNCHANGED <<style, calls, finished>>

\* shape_frame of the finishing frame, whose text is empty: the filter resolves
\* what it holds, and the text it gives back takes the place of what it shows.
ShapeFinish ==
    /\ ~finished
    /\ finished' = TRUE
    /\ LET after == Push(<<>>)
           parsed == ParseToolCalls(after.held)
           isCalls == parsed # NoCalls /\ after.inCall
       IN  /\ held' = <<>> /\ inCall' = after.inCall /\ contentSeen' = after.seen
           /\ calls' = IF isCalls THEN parsed ELSE NoCalls
           /\ content' = content \o (IF isCalls THEN after.shown ELSE after.held)
    /\ role' = role + NamesRole
    /\ UNCHANGED <<style, text, chunks>>

Ended == finished /\ UNCHANGED chatVars

ChatNext == (\E chunk \in Chunks : ShapeDelta(chunk)) \/ ShapeFinish \/ Ended

ChatSpec == ChatInit /\ [][ChatNext]_chatVars

-----------------------------------------------------------------------------

\* However the text was cut into events, the client of a stream ends up with the
\* calls and the content of the response that is not streamed, up to the white
\* space before a call, which a stream has already shown.
StreamedIsCollected ==
    finished => LET response == ChatResponse(text)
                IN  /\ calls = response.calls
                    /\ IF calls = NoCalls THEN content = response.content
                       ELSE TrimEnd(content) = response.content

\* Until then no text is lost, repeated or reordered, and text that is held back
\* outside of a call is text that may yet turn out to be one.
HeldMayBecomeCall ==
    ~finished =>
        /\ content \o held = text
        /\ held # <<>> /\ ~inCall =>
              \E rest \in {<<"c", "J">>, <<"p", "J">>, <<"J">>} : ParseToolCalls(held \o rest) # NoCalls

\* The stream's view of the model's text: StreamedIsCollected, HeldMayBecomeCall,
\* and a role that is named once.
StreamFaithful == StreamedIsCollected /\ HeldMayBecomeCall /\ (finished => role = 1)

=============================================================================
