----------------------------- MODULE Algorithms -----------------------------
(***************************************************************************)
(* The pure computations of ShimRequests, PolicyRules, Codec, Grammar and  *)
(* Framing, each evaluated on every input of a bounded set and compared    *)
(* with what it must mean.  A state is one input; a step hands one to a    *)
(* computation.                                                            *)
(***************************************************************************)
EXTENDS ShimRequests, PolicyRules, Codec, Grammar, Framing

CONSTANT Wildcards    \* do the attenuation requests include one for every model?

VARIABLE input        \* [algo, in]

AlgorithmsInit == input = [algo |-> "none", in |-> << >>]

Give(algo, inputs) ==
  /\ input.algo = "none"
  /\ \E x \in inputs : input' = [algo |-> algo, in |-> x]

-----------------------------------------------------------------------------
(* Inputs.                                                                 *)

Chars == {0, 33, 63, Pad, Space, Bad}

BodyParts == {Part("text", << >>, 0), Part("text", <<"a">>, 0), Part("image", << >>, 0),
              Part("bad image", << >>, 0), Part("result", <<"r">>, 1),
              Part("result", <<"s">>, 2), Part("use", <<"u">>, 0)}

Bodies == [system : {<< >>, <<"sys">>},
           turns : SeqOf([role : {"user"}, id : {0}, parts : SeqOf(BodyParts, 2)], 2)]

UnitNames == {n \in SeqOf({"org.a", "org.b", "tool", "77", "8 hex"}, 3) : n # << >>}

Callers == [uid : {"7", "9"},
            unit : {None, Some(<<"portal", ".service">>), Some(<<"a">>)}, exe : {None}]
Claims == [portal_app_id : {None, Some(<<"uid:", "7">>)},
           shim_client : {None, Some(<<"a">>), Some(<<"uid:", "7">>), Some(<<"a", "@", "7">>)},
           peer : {None, Some([uid |-> "7", unit |-> None, exe |-> Some(<<"a">>)])},
           attested : BOOLEAN]
\* uid 9 is the shim's.
Trust == [shim_uid |-> "9", portal_units |-> {<<"portal">>}]

Entries == SeqOf([name : {"x", "y"}, value : {1, 2}], 2)
ConfigTables == {<< >>, [policy |-> 2]}
DropIns(n) == [name : {n}, conf : BOOLEAN, tables : ConfigTables, list : {l \in Entries : Len(l) < 2}]

Defaults == [rate |-> 2, session_rate |-> None, max_sessions |-> 2, spend |-> 0,
             no_tools |-> FALSE, models |-> {"*"}, prelude |-> <<"rule">>,
             mark_provenance |-> FALSE]
Rules == {<< >>} \cup [spend : {0, 2}, models : SUBSET {"a", "b", "*"}, mark_provenance : BOOLEAN]
Asked == [rate : {None, Some(0), Some(3)}, max_sessions : {None, Some(1), Some(3)},
          spend : {None, Some(0), Some(1), Some(3)}, no_tools : BOOLEAN, prelude : {<< >>, <<"mine">>},
          mark_provenance : {FALSE},
          models : {None} \cup {Some(S) : S \in SUBSET {"a", "b"}} \cup
                   {Some(S \cup {"*"}) : S \in IF Wildcards THEN SUBSET {"a"} ELSE {}}]

Budgets == [top : {63}, ceiling : {24}, max_pixels : {4, 6, 7, 20}, max_samples : {5, 6, 7}]
Attachments == [kind : {"image"}, w : 0..8, h : 0..8, fmt : {"rgb8", "rgba8"},
                len : {0, 12, 18, 24, 28, 63}, rate : {0}]
               \cup [kind : {"audio"}, w : {0}, h : {0}, fmt : {"pcm"}, len : 0..29, rate : {0, 1}]

Texts == SeqOf({"<", "/", "p", "P", "q", "0", "1"}, 5)

Codes == [1..4 -> 0..3]
BitStreams == SeqOf({0, 1}, 4)
LengthTokens == {[sym |-> s, extra |-> 0] : s \in {0, 2, 16, 17, 18}}
                \cup {[sym |-> 16, extra |-> 3], [sym |-> 17, extra |-> 7]}
BlockTokens == {[len |-> -1, dist |-> 0, byte |-> 0], [len |-> 0, dist |-> 0, byte |-> 1],
                [len |-> 0, dist |-> 0, byte |-> 2]}
               \cup {[len |-> l, dist |-> d, byte |-> 0] : l \in {3, 4}, d \in 1..3}
\* Two rows of two pixels of three channels.
Pixel(v) == <<v, (v + 100) % 256, 255 - v>>
Pictures == {<<Pixel(a) \o Pixel(b), Pixel(c) \o Pixel(d)>> :
               a, b, c, d \in {0, 1, 200, 255}}

Schema(type, choices, properties, required, items) ==
  [type |-> type, choices |-> choices, properties |-> properties, required |-> required,
   items |-> items]
Leaf(type) == Schema(type, << >>, << >>, {}, << >>)
Leaves == {Leaf("string"), Leaf("other"), Schema("string", <<"x", "y">>, << >>, {}, << >>)}
Keys == <<"a", "b", "c">>
\* Objects of some of the keys, in order, some of them required.
Objects(keys, of) ==
  {Schema("object", << >>, <<SelectSeq([k \in DOMAIN keys |-> <<keys[k], f[k]>>],
                                       LAMBDA p : p[1] \in S)>>, R, << >>) :
     f \in [DOMAIN keys -> of], S \in SUBSET ToSet(keys), R \in SUBSET ToSet(keys)}
Arrays == {Schema("array", << >>, << >>, {}, i) :
             i \in {<< >>} \cup {<<o>> : o \in Objects(<<"a">>, {Leaf("null")})}}
Nested == Arrays \cup Objects(<<"a", "b">>, {Leaf("integer"), Leaf("object")})
Schemas == {Leaf("not an object"), Leaf("boolean")} \cup Leaves \cup Nested
           \cup Objects(Keys, Leaves) \cup Objects(<<"a", "b">>, Arrays)
Tools == {<< >>} \cup {<<[name |-> "t", schema |-> s]>> : s \in Schemas}
         \cup {<<[name |-> "t", schema |-> s], [name |-> n, schema |-> r]>> :
                 s \in Nested, r \in Arrays, n \in {"u", "not plain"}}

-----------------------------------------------------------------------------
GiveBase64 == Give("base64", SeqOf(Chars, 5))
GiveBody == Give("body", Bodies)
GiveUnit == Give("unit", UnitNames \X {<< >>, <<"gnome">>, <<"airun">>})
GiveCallers == Give("callers", [caller : Callers, options : Claims] \X [caller : Callers, options : Claims])
GiveFiles == Give("files", {<<[tables |-> [policy |-> 1, daemon |-> 1], list |-> l], S>> :
                             l \in Entries, S \in {{d, e} : d \in DropIns(1), e \in DropIns(2)}})
GiveLimits == Give("limits", Rules \X Asked)
GiveAttachment == Give("attachment", Budgets \X Attachments)
GiveText == Give("text", Texts)
GiveCode == Give("code", Codes \X BitStreams)
GiveLengths == Give("lengths", SeqOf(LengthTokens, 4) \X {5, 12})
GiveBlock == Give("block", SeqOf(BlockTokens, 4) \X {4, 6, 20})
GivePicture == Give("picture", Pictures \X ((0..5) \X (0..4)) \X {0, 1})
GiveTools == Give("tools", Tools)
GiveStream == Give("stream", SeqOf(0..(2 * MAX_FRAME + 1), 2) \X (0..60))

AlgorithmsNext ==
  \/ GiveBase64 \/ GiveBody \/ GiveUnit \/ GiveCallers \/ GiveFiles \/ GiveLimits
  \/ GiveAttachment \/ GiveText \/ GiveCode \/ GiveLengths \/ GiveBlock \/ GivePicture
  \/ GiveTools \/ GiveStream

AlgorithmsSpec == AlgorithmsInit /\ [][AlgorithmsNext]_input

-----------------------------------------------------------------------------
(* Properties.                                                             *)

\* The shim's base64_decode reads the characters' values as one string of
\* bits, cut into bytes, up to the padding; anything else is refused.
Base64Exact == input.algo = "base64" => base64_decode(input.in) = Base64Meaning(input.in)

\* No image of a chat request is lost, doubled or shown with another turn.
EveryImageKept == input.algo = "body" => ImagesKept(input.in)

\* Every tool result of a Messages request reaches the daemon under its id.
EveryResultKept == input.algo = "body" => ResultsKept(input.in)

\* The three APIs make the same conversation of the same text turns.
OneConversation == input.algo = "body" => SameConversation(input.in)

\* A remembered grant is keyed by the application, whatever the launch was
\* called (normalise_unit).
UnitIsTheApp == input.algo = "unit" => UnitNamesApp(input.in[1], input.in[2])

\* A client name the shim vouched for is not the key of any other caller
\* (identity_of's filter on shim_client, and key).
NamesNotBorrowed == input.algo = "callers" => ClientKeyIsOwn(Trust, input.in[1], input.in[2])

\* A drop-in overrides whatever was declared before it (load, merge, last_wins).
DropInsOverride == input.algo = "files" => LastFileWins(input.in[1], input.in[2])

\* "Every field here can only take away" (attenuate).
OnlyTakesAway ==
  input.algo = "limits" =>
    LET limits == limits_for(Defaults, input.in[1])
    IN  Narrower(limits, attenuate(limits, input.in[2]))

\* An attachment the session lets through, under a configuration the daemon
\* accepted, fits the frame it travels to the backend in.
AcceptedFits == input.algo = "attachment" => FitsFrame(input.in[1], input.in[2])

\* No text of an application or a tool reads as the daemon's own marker.
OnlyOurMarkers ==
  input.algo = "text" =>
    \A role \in {"user", "tool"} :
      MarkersAreOurs([prelude |-> <<"rule">>, mark_provenance |-> TRUE],
                     <<[role |-> role, content |-> input.in]>>)

\* The Huffman decoder reads the canonical code of any lengths, and never
\* leaves its table, even for lengths that are no code.
HuffmanReads == input.algo = "code" => HuffmanExact(input.in[1], input.in[2])

\* The code lengths of a dynamic block fill their table exactly.
LengthsFill == input.algo = "lengths" => LengthsExact(input.in[1], input.in[2])

\* A block decodes to the bytes its tokens say, copies that overlap
\* themselves included, and to no more than the caller's limit.
BlockReads == input.algo = "block" => BlockExact(input.in[1], input.in[2])

\* Every PNG row filter undoes the filter it is named for.
FiltersUndo ==
  input.algo = "picture" => UnfilterExact(input.in[1], input.in[2], 2, 3, input.in[3])

\* "the only token sequences the model can emit are well-formed calls to tools
\* the client actually declared" (grammar.rs), every optional argument free.
GrammarExact == input.algo = "tools" => GrammarMeans(input.in)

\* Reader and writer of a frame stream stay in step, whatever the lengths
\* (write_blob, read_frame), and a cut stream never passes for a whole one.
FramesInStep == input.algo = "stream" => StreamInStep(input.in[1], input.in[2])

\* What the shim, the tool grammar and the framing make of their inputs is
\* what those mean: nothing of a body or of a stream is lost or misplaced.
ConversionsExact == /\ Base64Exact /\ EveryImageKept /\ EveryResultKept
                    /\ OneConversation /\ GrammarExact /\ FramesInStep

\* Who a caller is, which configuration holds, what may be attached and what
\* the model is shown follow the rules, for every combination of inputs.
RulesExact == /\ UnitIsTheApp /\ NamesNotBorrowed /\ DropInsOverride
              /\ AcceptedFits /\ OnlyOurMarkers

\* The decoder of PNG reads what was written.
DecoderExact == HuffmanReads /\ LengthsFill /\ BlockReads /\ FiltersUndo
=============================================================================
