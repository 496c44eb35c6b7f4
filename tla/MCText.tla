------------------------------- MODULE MCText -------------------------------
(***************************************************************************)
(* Instances for TLC of the four modules about text: the tokenizer, the    *)
(* stop strings of a generation, constrained decoding, and tool calls in a *)
(* chat stream.  None of them shares state with another, so a behaviour    *)
(* exercises one, its subject, and leaves the others where they start.     *)
(***************************************************************************)
EXTENDS Grammar, Generation, Tokenizer, ChatStream

CONSTANTS
    alpha, beta,         \* the ASCII characters of Generation
    MaxScanned, MaxWord  \* bounds: lengths of the tokenizer's inputs

-----------------------------------------------------------------------------
(* Grammar. *)

Match(class) == [kind |-> "bytes", class |-> class]
Ref(rule) == [kind |-> "rule", rule |-> rule]

\* a(b|c)*d with right recursion, as in the tests of grammar.rs.
Looping == [start |-> 1, rules |->
    << << <<Match({1}), Ref(2)>> >>,
       << <<Match({2, 3}), Ref(2)>>, <<Match({4})>> >> >>]

\* Nested pairs around an optional b: the stack grows, and a rule is nullable.
Nested == [start |-> 1, rules |->
    << << <<Ref(2), Match({1}), Ref(1), Match({4})>>, <<Match({1}), Match({4})>> >>,
       << <<>>, <<Match({2})>> >> >>]

HiddenLeftRecursion == [start |-> 1, rules |->
    << << <<Ref(2), Ref(1)>>, <<Match({1})>> >>, << <<>> >> >>]

Dangling == [start |-> 1, rules |-> << << <<Ref(9)>> >> >>]

AllGrammars == {Looping, Nested, HiddenLeftRecursion, Dangling}

\* a, ab, bd, d, cb, and end-of-sequence.
TokenTable == <<<<1>>, <<1, 2>>, <<2, 4>>, <<4>>, <<3, 2>>, <<>>>>

-----------------------------------------------------------------------------
(* Generation: overlapping and nested stop strings, one with a two-byte      *)
(* character, and tokens of up to two bytes.                                 *)

StopStrings == {<<>>, <<<<alpha, beta>>, <<beta>>>>,
                <<<<alpha, alpha, beta>>, <<alpha, beta>>>>,
                <<<<Lead, Continuation, alpha>>, <<alpha>>>>,
                <<<<beta, alpha, beta, alpha>>, <<alpha, beta, alpha>>>>}

NoTokens == [stops |-> <<>>, min |-> 0, max |-> 0]
StopRequests == {[stops |-> t, min |-> m, max |-> n] : t \in StopStrings, m \in 0..1, n \in {1, 3}}
                  \union {NoTokens}

ShortTexts == BoundedSeq(TextBytes, 2)

-----------------------------------------------------------------------------
(* Tokenizer. *)

\* Texts for the scanner: every class of character, with one simple merge.
ScannedMerges == <<<<<<"a">>, <<"s">>>>, <<<<"'">>, <<"s">>>>>>
Scanned == {[profile |-> p, merges |-> ScannedMerges, input |-> s] :
               p \in {"SmolLm2", "Qwen2", "Llama3"}, s \in BoundedSeq(Characters, MaxScanned)}

\* Texts for the merges: words over two letters with every trained table of
\* up to three of these merges.
Pairs == {<<<<"a">>, <<"a">>>>, <<<<"a">>, <<"s">>>>, <<<<"s">>, <<"a">>>>,
          <<<<"a", "a">>, <<"a">>>>, <<<<"a">>, <<"a", "a">>>>, <<<<"a", "s">>, <<"a">>>>,
          <<<<"a", "a">>, <<"a", "a">>>>, <<<<"a", "s">>, <<"a", "s">>>>,
          <<<<"s">>, <<"a", "s">>>>}
Tables == {t \in BoundedSeq(Pairs, 3) : Trained(t) /\ \A i, j \in DOMAIN t : t[i] = t[j] => i = j}
Words == {[profile |-> "Qwen2", merges |-> t, input |-> s] :
             t \in Tables, s \in BoundedSeq(Letters, MaxWord)}

AllCases == Scanned \union Words
NoInput == [profile |-> "Qwen2", merges |-> <<>>, input |-> <<>>]
AddedTexts == {<<"1", "a">>, <<"1", "a", "1">>}

-----------------------------------------------------------------------------
(* ChatStream: single symbols and a few texts that hold a tag, a call or the *)
(* end of one.                                                               *)

Deltas == {<<>>, <<"<">>, <<"c">>, <<"p">>, <<"J">>, <<"/">>, <<";">>, <<" ">>, <<"{">>,
           <<"<", "c", "J">>, <<"x", "<">>}

-----------------------------------------------------------------------------
VARIABLE subject

textVars == <<subject, grammarVars, generationVars, tokenizerVars, chatVars>>

Init ==
    /\ subject \in {"grammar", "generation", "tokenizer", "chat"}
    /\ subject # "tokenizer" => case = NoInput
    /\ subject # "generation" => request = NoTokens
    /\ subject # "chat" => style = "Hermes"
    /\ TokenizerInit /\ GrammarInit /\ GenerationInit /\ ChatInit

GrammarStep == subject = "grammar" /\ GrammarNext
                 /\ UNCHANGED <<subject, generationVars, tokenizerVars, chatVars>>
GenerationStep == subject = "generation" /\ GenerationNext
                    /\ UNCHANGED <<subject, grammarVars, tokenizerVars, chatVars>>
TokenizerStep == subject = "tokenizer" /\ TokenizerNext
                   /\ UNCHANGED <<subject, grammarVars, generationVars, chatVars>>
ChatStep == subject = "chat" /\ ChatNext
              /\ UNCHANGED <<subject, grammarVars, generationVars, tokenizerVars>>

\* Generations and grammars end; the tokenizer and a chat say themselves when.
Ends == subject \in {"grammar", "generation"} /\ UNCHANGED textVars

Next == GrammarStep \/ GenerationStep \/ TokenizerStep \/ ChatStep \/ Ends

Spec == Init /\ [][Next]_textVars
=============================================================================
