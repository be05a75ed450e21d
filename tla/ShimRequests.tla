---------------------------- MODULE ShimRequests ----------------------------
(***************************************************************************)
(* What ai-daemon-shim makes of a request body: base64_decode, and the     *)
(* messages each of the three APIs gives the daemon.                       *)
(*                                                                         *)
(* A text is a sequence of pieces.  A content part is [type, text, id],    *)
(* with a string content as one text part; an image is good or bad by its  *)
(* type.  A base64 character is its value, or one of three marks past 63.  *)
(***************************************************************************)
EXTENDS Integers, Sequences, SequencesExt, FiniteSetsExt

Pad == 64
Space == 65
Bad == 66

\* A conversion gives a sequence, or refuses.
Gives(seq) == [ok |-> TRUE, seq |-> seq]
Refuses == [ok |-> FALSE, seq |-> << >>]

-----------------------------------------------------------------------------
(* base64_decode.  The accumulator is a u32: what is shifted out is lost.  *)

Value(c) == c \in 0..63

AtSeven(s, c) ==
  CASE s.end \/ c = Space -> s
    [] ~ s.end /\ c = Pad -> [s EXCEPT !.end = TRUE]
    [] ~ s.end /\ c = Bad -> [s EXCEPT !.end = TRUE, !.out = Refuses]
    [] ~ s.end /\ Value(c) ->
         LET acc == (s.acc * 64 + c) % (2 ^ 14)
             n == s.bits + 6
         IN  IF n < 7 THEN [s EXCEPT !.acc = acc, !.bits = n]
             ELSE [s EXCEPT !.acc = acc, !.bits = n - 7,
                            !.out.seq = Append(@, (acc \div 2 ^ (n - 7)) % 256)]

\* One byte of the text.  Of the accumulator's 32 bits no more than the low
\* 14 are ever read, so it is kept to those.
Base64Step(s, c) ==
  CASE s.end \/ c = Space -> s
    [] ~ s.end /\ c = Pad -> [s EXCEPT !.end = TRUE]
    [] ~ s.end /\ c = Bad -> [s EXCEPT !.end = TRUE, !.out = Refuses]
    [] ~ s.end /\ Value(c) ->
         LET acc == (s.acc * 64 + c) % (2 ^ 14)
             n == s.bits + 6
         IN  IF n < 8 THEN [s EXCEPT !.acc = acc, !.bits = n]
             ELSE [s EXCEPT !.acc = acc, !.bits = n - 8,
                            !.out.seq = Append(@, (acc \div 2 ^ (n - 8)) % 256)]

base64_decode(text) ==
  FoldLeft(Base64Step, [acc |-> 0, bits |-> 0, out |-> Gives(<< >>), end |-> FALSE], text).out

\* The reference: the values up to the padding are one string of bits, cut
\* into bytes from the left.
Base64Meaning(text) ==
  LET pads == {k \in DOMAIN text : text[k] = Pad}
      said == IF pads = {} THEN text ELSE SubSeq(text, 1, Min(pads) - 1)
      values == SelectSeq(said, LAMBDA c : c # Space)
      bit(i) == (values[(i \div 6) + 1] \div 2 ^ (5 - (i % 6))) % 2
  IN  IF Bad \in ToSet(said) THEN Refuses
      ELSE Gives([k \in 1..((6 * Len(values)) \div 8) |->
              SumSet({bit(8 * (k - 1) + j) * 2 ^ (7 - j) : j \in 0..7})])

-----------------------------------------------------------------------------
(* Bodies.  A body is [system, turns], a turn [role, parts].               *)

Part(type, text, id) == [type |-> type, text |-> text, id |-> id]
Message(role, content, attachments, id) ==
  [role |-> role, content |-> content, attachments |-> attachments, id |-> id]

SystemMessage(text) ==
  IF text = << >> THEN << >> ELSE <<Message("system", text, << >>, 0)>>

TextOf(parts) == FlattenSeq([k \in DOMAIN parts |->
                   IF parts[k].type = "text" THEN parts[k].text ELSE << >>])

Images(turns, n) ==
  FoldLeft(LAMBDA sum, t : sum + Len(SelectSeq(t.parts, LAMBDA p : p.type = "image")),
           0, SubSeq(turns, 1, n))

NumberedByTurn(turns, k) ==
  [i \in 1..(Images(turns, k) - Images(turns, k - 1)) |-> i]

\* The images of turn k, numbered from one through the whole body.
ImageIds(turns, k) ==
  [i \in 1..(Images(turns, k) - Images(turns, k - 1)) |-> Images(turns, k - 1) + i]

HasBadImage(turns) ==
  \E k \in DOMAIN turns : \E p \in ToSet(turns[k].parts) : p.type = "bad image"

\* chat: one message for each entry, with the tool_call_id the entry has.
ChatMessages(turns) ==
  IF HasBadImage(turns) THEN Refuses
  ELSE Gives([k \in DOMAIN turns |->
          Message(turns[k].role, TextOf(turns[k].parts), ImageIds(turns, k), turns[k].id)])

\* parse_messages_body: earlier calls are text on a line of their own; the
\* results in a turn follow what else it says.
Spoken(parts) ==
  FoldLeft(LAMBDA text, p : CASE p.type = "text" -> text \o p.text
                              [] p.type = "use" -> (IF text = << >> THEN text
                                                    ELSE text \o <<"newline">>) \o p.text
                              [] OTHER -> text, << >>, parts)

LastResult(parts) ==
  LET given == SelectSeq(parts, LAMBDA p : p.type = "result")
  IN  IF given = << >> THEN << >>
      ELSE <<Message("tool", Last(given).text, << >>, Last(given).id)>>

Results(parts) ==
  LET given == SelectSeq(parts, LAMBDA p : p.type = "result")
  IN  [k \in DOMAIN given |-> Message("tool", given[k].text, << >>, given[k].id)]

AnthropicTurn(turns, k) ==
  LET text == Spoken(turns[k].parts)
      ids == ImageIds(turns, k)
  IN  (IF text = << >> /\ ids = << >> THEN << >>
       ELSE <<Message(turns[k].role, text, ids, 0)>>) \o Results(turns[k].parts)

parse_messages_body(body) ==
  IF HasBadImage(body.turns) THEN Refuses
  ELSE Gives(SystemMessage(body.system)
         \o FlattenSeq([k \in DOMAIN body.turns |-> AnthropicTurn(body.turns, k)]))

\* parse_responses_body: a call or a result is an item, so a message; an
\* image is dropped; a body of nothing but a system prompt is refused.
ResultAsUser(turn) ==
  CASE turn.role = "result" -> Message("user", turn.parts[1].text, << >>, turn.parts[1].id)
    [] turn.role = "use"    -> Message("assistant", turn.parts[1].text, << >>, 0)
    [] OTHER                -> Message(turn.role, TextOf(turn.parts), << >>, 0)

ResponsesItem(turn) ==
  CASE turn.role = "result" -> Message("tool", turn.parts[1].text, << >>, turn.parts[1].id)
    [] turn.role = "use"    -> Message("assistant", turn.parts[1].text, << >>, 0)
    [] OTHER                -> Message(turn.role, TextOf(turn.parts), << >>, 0)

parse_responses_body(body) ==
  LET messages == SystemMessage(body.system)
                    \o [k \in DOMAIN body.turns |-> ResponsesItem(body.turns[k])]
  IN  IF \A m \in ToSet(messages) : m.role = "system" THEN Refuses ELSE Gives(messages)

-----------------------------------------------------------------------------
(* What the conversions keep.                                              *)

AllAttachments(messages) ==
  FlattenSeq([k \in DOMAIN messages |-> messages[k].attachments])

\* Each image of a body is announced once, under a name no other has, and
\* belongs to the message of the turn it was in.
ImagesKept(body) ==
  LET n == Images(body.turns, Len(body.turns))
      chat == ChatMessages(body.turns).seq
      anthropic == parse_messages_body(body).seq
  IN  ~ HasBadImage(body.turns) =>
        /\ AllAttachments(chat) = [k \in 1..n |-> k]
        /\ AllAttachments(anthropic) = [k \in 1..n |-> k]
        /\ \A k \in DOMAIN chat : Len(chat[k].attachments) =
             Len(SelectSeq(body.turns[k].parts, LAMBDA p : p.type = "image"))

\* Every tool result of a body reaches the daemon as a message of its own,
\* in the order given, with the call it answers.
ResultsKept(body) ==
  LET parts == FlattenSeq([k \in DOMAIN body.turns |-> body.turns[k].parts])
      given == SelectSeq(parts, LAMBDA p : p.type = "result")
      messages == parse_messages_body(body)
  IN  messages.ok =>
        LET told == SelectSeq(messages.seq, LAMBDA m : m.role = "tool")
        IN  /\ Len(told) = Len(given)
            /\ \A k \in DOMAIN told : /\ told[k].content = given[k].text
                                      /\ told[k].id = given[k].id

\* The same conversation in the terms of the other two APIs.
AsChat(body) ==
  (IF body.system = << >> THEN << >>
   ELSE <<[role |-> "system", id |-> 0, parts |-> <<Part("text", body.system, 0)>>]>>)
    \o body.turns
AsItems(body) ==
  [body EXCEPT !.turns = FlattenSeq([k \in DOMAIN @ |->
     IF @[k].parts[1].type = "result"
       THEN [i \in DOMAIN @[k].parts |->
               [role |-> "result", id |-> 0, parts |-> <<@[k].parts[i]>>]]
       ELSE <<@[k]>>])]
AllOf(turn, type) == turn.parts # << >> /\ \A p \in ToSet(turn.parts) : p.type = type

\* A conversation of texts and tool results gives the daemon the same
\* messages through /v1/messages and /v1/responses, and one of texts alone
\* through /v1/chat/completions too.
SameConversation(body) ==
  LET texts == \A t \in ToSet(body.turns) : AllOf(t, "text") /\ TextOf(t.parts) # << >>
      plain == \A t \in ToSet(body.turns) : \/ AllOf(t, "result")
                                            \/ AllOf(t, "text") /\ TextOf(t.parts) # << >>
  IN  /\ plain /\ body.turns # << >> =>
           parse_responses_body(AsItems(body)) = parse_messages_body(body)
      /\ texts => ChatMessages(AsChat(body)) = parse_messages_body(body)

=============================================================================
