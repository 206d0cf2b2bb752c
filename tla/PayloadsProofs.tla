---------------------------- MODULE PayloadsProofs ----------------------------
(***************************************************************************)
(* Proofs about Payloads: what the two SDKs make of a payload is compared  *)
(* field by field, track by track and check by check, for lists of         *)
(* unavailable tracks of every length.                                     *)
(***************************************************************************)
EXTENDS Payloads, FiniteSetTheorems, TLAPS

-----------------------------------------------------------------------------
(* What was read is a function of the payload.                             *)

(* A payload is an event, a context or a message.                          *)
PayloadInv ==
    \/ input \in Events
    \/ input \in [is : {"context"}, context : SpeechContexts]
    \/ input \in [is : {"message"}, message : Messages]

(* Once it is read, each SDK has what its readers return for it.           *)
ReadInv ==
    /\ Read("event") =>
          /\ rust = RustReads(FieldsOf(input.event)[input.field][1],
                              input.value)
          /\ ts = TsReads(FieldsOf(input.event)[input.field][2], input.value)
    /\ Read("context") =>
          /\ rust = IF RustContext(input.context) THEN "accepted" ELSE None
          /\ ts = IF tsContext(input.context) THEN "accepted" ELSE None
    /\ Read("message") =>
          rust = RustMessage(input.message) /\ ts = tsMessage(input.message)

(* No step changes the payload, and the one step that reads it leaves what *)
(* the readers return.                                                     *)
LEMMA ReadOnce == Spec => [](PayloadInv /\ ReadInv)
<1>1. Init => PayloadInv
  BY DEF Init, PayloadInv
<1>2. Init => ReadInv
  BY DEF Init, ReadInv, Read
<1>3. PayloadInv /\ [Next]_vars => PayloadInv'
  BY DEF PayloadInv, Next, ReadsEvent, ReadsContext, ReadsMessage, vars
<1>4. ReadInv /\ [Next]_vars => ReadInv'
  <2> SUFFICES ASSUME ReadInv, [Next]_vars PROVE ReadInv'
    OBVIOUS
  <2>1. CASE ReadsEvent
    BY <2>1 DEF ReadInv, Read, ReadsEvent
  <2>2. CASE ReadsContext
    BY <2>2 DEF ReadInv, Read, ReadsContext
  <2>3. CASE ReadsMessage
    BY <2>3 DEF ReadInv, Read, ReadsMessage
  <2>4. CASE UNCHANGED vars
    BY <2>4 DEF ReadInv, Read, vars
  <2>5. QED  BY <2>1, <2>2, <2>3, <2>4 DEF Next
<1>5. QED  BY <1>1, <1>2, <1>3, <1>4, PTL DEF Spec

-----------------------------------------------------------------------------
(* Events.                                                                 *)

(* The readers that Rust and TypeScript have in common, by their names;    *)
(* the last three are fallbacks of required_string.                        *)
SharedReaders ==
    {"string", "nonempty", "number", "numberOrZero", "recoverable", "strings",
     "object", "empty", "unknown", "partial_omitted"}

(* How a field may be read: alike, or differently in one of the ways that  *)
(* the two SDKs differ.                                                    *)
Paired(event, field, readers) ==
    \/ \E r \in SharedReaders : readers = <<r, r>>
    \/ readers = id
    \/ readers = <<"items", "items">> /\ field \in {"entities", "words"}
    \/ readers = <<"fixed", "own">> /\ field = "session_id"
    \/ readers = <<"i64", "number">> /\ field = "generation"
    \/ readers = <<"string", "stringOrNull">> /\ field = "partial_transcript"
    \/ readers = <<"value", "value">> /\ field = "payload"
    \/ readers = <<"numberOrZero", "number">> /\ event = "word"
    \/ /\ readers = <<"u64OrZero", "number">> /\ event = "entity"
       /\ field \in {"start_char", "end_char"}

(* So is every field of a record.                                          *)
PairedFields(e, fields) == \A f \in DOMAIN fields : Paired(e, f, fields[f])

LEMMA PairedUnion ==
    ASSUME NEW e, NEW f, NEW g, PairedFields(e, f), PairedFields(e, g)
    PROVE  PairedFields(e, With(f, g))
BY DEF PairedFields, With

LEMMA PairedResponse ==
    ASSUME NEW e
    PROVE  PairedFields(e, response_event)
BY DEF PairedFields, Paired, response_event, str, id, SharedReaders

LEMMA PairedListeners ==
    ASSUME NEW e \in DOMAIN Listeners
    PROVE  PairedFields(e, With(base, Listeners[e]))
<1> USE DEF str, id, number, text, SharedReaders
<1>1. PairedFields(e, base)
  BY DEF PairedFields, Paired, base
<1>2. PairedFields(e, <<>>)
  BY DEF PairedFields
<1>3. PairedFields(e, on_session_created) /\ PairedFields(e, on_speech_started)
      /\ PairedFields(e, on_speech_stopped)
  BY DEF PairedFields, Paired, on_session_created, on_speech_started,
         on_speech_stopped
<1>4. PairedFields(e, on_transcript)
  BY DEF PairedFields, Paired, on_transcript
<1>5. PairedFields(e, on_turn_state_changed)
  BY DEF PairedFields, Paired, on_turn_state_changed
<1>6. PairedFields(e, on_transcript_delta)
  BY DEF PairedFields, Paired, on_transcript_delta
<1>7. PairedFields(e, on_turn_eou_predicted)
  BY DEF PairedFields, Paired, on_turn_eou_predicted
<1>8. PairedFields(e, on_response_event)
  BY PairedResponse DEF on_response_event
<1>9. PairedFields(e, on_response_spoken_text)
  <2> DEFINE own == [spoken_text |-> text("empty"),
                     partial_status |-> text("partial_omitted"),
                     played_audio_ms |-> <<"numberOrZero", "numberOrZero">>]
  <2>1. PairedFields(e, own)  BY DEF PairedFields, Paired
  <2>2. QED  BY <2>1, PairedResponse, PairedUnion DEF on_response_spoken_text
<1>10. PairedFields(e, on_interruption_event)
  <2> DEFINE own == [vad_active_ms |-> number,
                     partial_transcript |-> <<"string", "stringOrNull">>]
  <2>1. PairedFields(e, own)  BY DEF PairedFields, Paired
  <2>2. QED  BY <2>1, PairedResponse, PairedUnion DEF on_interruption_event
<1>11. PairedFields(e, on_browser_event)
  BY DEF PairedFields, Paired, on_browser_event
<1>12. PairedFields(e, on_close)
  BY DEF PairedFields, Paired, on_close
<1>13. PairedFields(e, on_error)
  BY DEF PairedFields, Paired, on_error
<1>14. PairedFields(e, on_signaling_error)
  BY DEF PairedFields, Paired, on_signaling_error
<1>15. PairedFields(e, Listeners[e])
  BY <1>2, <1>3, <1>4, <1>5, <1>6, <1>7, <1>8, <1>9, <1>10, <1>11, <1>12,
     <1>13, <1>14 DEF Listeners
<1>16. QED  BY <1>1, <1>15, PairedUnion

LEMMA PairedParts ==
    ASSUME NEW e \in DOMAIN Parts
    PROVE  PairedFields(e, Parts[e])
<1> USE DEF PairedFields, Paired, str, id, number, text, SharedReaders
<1>1. PairedFields("entity", transcript_entity)
  BY DEF transcript_entity
<1>2. PairedFields("word", transcript_word)
  BY DEF transcript_word
<1>3. PairedFields("output", response_output)
  BY DEF response_output
<1>4. QED  BY <1>1, <1>2, <1>3 DEF Parts

(* A shared reader returns the same in both SDKs for every kind of value.  *)
LEMMA SharedReadersAgree ==
    ASSUME NEW r \in SharedReaders, NEW v \in Kinds
    PROVE  RustReads(r, v) = TsReads(r, v)
BY DEF SharedReaders, Kinds, Strings, Integers, Numbers, Arrays, None,
       RustReads, TsReads, optional_string, required_string,
       optional_nonempty_string, optional_number, as_f64, recoverable_flag,
       optional_string_vec, as_object

(* THE EVENT THEOREM: whatever kind of value a field of an event has, the  *)
(* listeners of both SDKs are given the same, save for the session's id,   *)
(* the four places where Rust reports nothing, the missing or ill-typed    *)
(* numbers of words and entities, and integers above 2^53.                 *)
THEOREM EventsAreAlike == Spec => []EventsAgree
<1>1. PayloadInv /\ ReadInv => EventsAgree
  <2> SUFFICES ASSUME PayloadInv, ReadInv, Read("event") PROVE EventsAgree
    BY DEF EventsAgree
  <2> DEFINE f == input.field
             v == input.value
             readers == FieldsOf(input.event)[f]
  <2>1. input \in Events
    BY DEF PayloadInv, Read
  <2>2. /\ input.event \in DOMAIN Listeners \cup DOMAIN Parts
        /\ f \in DOMAIN FieldsOf(input.event) /\ v \in Kinds
    BY <2>1 DEF Events
  <2>3. Paired(input.event, f, readers)
    BY <2>2, PairedListeners, PairedParts DEF PairedFields, FieldsOf
  <2>4. rust = RustReads(readers[1], v) /\ ts = TsReads(readers[2], v)
    BY DEF ReadInv
  <2> HIDE DEF readers
  <2>5. CASE \E r \in SharedReaders : readers = <<r, r>>
    <3>1. PICK r \in SharedReaders : readers = <<r, r>>
      BY <2>5
    <3>2. rust = RustReads(r, v) /\ ts = TsReads(r, v)
      BY <2>4, <3>1
    <3>3. rust = ts
      BY <2>2, <3>2, SharedReadersAgree
    <3>4. QED  BY <3>3 DEF EventsAgree
  <2>6. CASE readers = id
    BY <2>2, <2>4, <2>6 DEF id, RustReads, TsReads, Strings,
       optional_nonempty_string, required_string, EventsAgree
  <2>7. CASE readers = <<"items", "items">> /\ f \in {"entities", "words"}
    BY <2>2, <2>4, <2>7 DEF RustReads, TsReads, Arrays, objects_of,
       EventsAgree
  <2>8. CASE readers = <<"fixed", "own">> /\ f = "session_id"
    BY <2>4, <2>8 DEF RustReads, EventsAgree
  <2>9. CASE readers = <<"i64", "number">> /\ f = "generation"
    BY <2>2, <2>4, <2>9 DEF RustReads, TsReads, Numbers, Integers, Unsafe,
       as_f64, optional_i64, EventsAgree
  <2>10. CASE readers = <<"string", "stringOrNull">>
              /\ f = "partial_transcript"
    BY <2>2, <2>4, <2>10 DEF RustReads, TsReads, Strings, optional_string,
       EventsAgree
  <2>11. CASE readers = <<"value", "value">> /\ f = "payload"
    BY <2>2, <2>4, <2>11 DEF RustReads, TsReads, value_or_null, as_f64,
       EventsAgree
  <2>12. CASE readers = <<"numberOrZero", "number">> /\ input.event = "word"
    BY <2>2, <2>4, <2>12 DEF RustReads, TsReads, Numbers, Integers, None,
       as_f64, optional_number, EventsAgree
  <2>13. CASE /\ readers = <<"u64OrZero", "number">>
              /\ input.event = "entity" /\ f \in {"start_char", "end_char"}
    BY <2>2, <2>4, <2>13 DEF RustReads, TsReads, Numbers, Integers, Unsafe,
       as_f64, u64_or_zero, EventsAgree
  <2>14. QED  BY <2>3, <2>5, <2>6, <2>7, <2>8, <2>9, <2>10, <2>11, <2>12,
              <2>13 DEF Paired
<1>2. QED  BY <1>1, ReadOnce, PTL

-----------------------------------------------------------------------------
(* Messages of the browser.                                                *)

(* The two gateways check in different orders: Rust the generation before  *)
(* the body, type by type; TypeScript the type and the generation at once. *)
LEMMA MessagesAgree ==
    ASSUME NEW m \in Messages
    PROVE  \/ RustMessage(m) = tsMessage(m)
           \/ /\ RustMessage(m).error # "no"
              /\ m.frame = "binary" \/ m.generation = "decimal"
           \/ m.body = "absent" /\ tsMessage(m).error # "no"
           \/ /\ m.body = "loose" /\ tsMessage(m).error = "no"
              /\ RustMessage(m) = [tsMessage(m) EXCEPT !.what = "loose"]
<1> DEFINE required == m.generated /\ m.type = "rtc.ice_candidate"
           closed == Forwarded(IF m.reason = "absent" THEN "client_closed"
                                                      ELSE m.reason, "absent")
<1>1. /\ m.type \in {"rtc.offer", "rtc.ice_candidate", "rtc.close", "other",
                      "blank"}
      /\ m.body \in Bodies /\ m.generation \in Kinds
  BY DEF Messages
<1>2. CASE m.frame = "binary"
  <2>1. RustMessage(m) = Rejected("plain")
    BY <1>2 DEF RustMessage
  <2>2. QED  BY <1>2, <2>1 DEF Rejected
<1> SUFFICES ASSUME m.frame # "binary"
             PROVE  \/ RustMessage(m) = tsMessage(m)
                    \/ /\ RustMessage(m).error # "no"
                       /\ m.generation = "decimal"
                    \/ m.body = "absent" /\ tsMessage(m).error # "no"
                    \/ /\ m.body = "loose" /\ tsMessage(m).error = "no"
                       /\ RustMessage(m) =
                             [tsMessage(m) EXCEPT !.what = "loose"]
  BY <1>2
<1>3. CASE ~Parses(m) \/ m.type = "other"
  <2>1. RustMessage(m) = Rejected("plain")
    BY <1>3 DEF RustMessage
  <2>2. tsMessage(m) = Rejected("plain")
    BY <1>3 DEF tsMessage, Parses
  <2>3. QED  BY <2>1, <2>2
<1>4. CASE Parses(m) /\ m.type = "rtc.close"
  <2>1. RustMessage(m) = closed
    BY <1>4 DEF RustMessage
  <2>2. tsMessage(m) = closed
    BY <1>4 DEF tsMessage
  <2>3. QED  BY <2>1, <2>2
<1>5. CASE Parses(m) /\ m.type \in {"rtc.offer", "rtc.ice_candidate"}
  <2>1. CASE m.generation = "decimal"
    <3>1. RustMessage(m) = Rejected("command_invalid")
      BY <1>5, <2>1 DEF RustMessage, generation_ok
    <3>2. QED  BY <2>1, <3>1 DEF Rejected
  <2>2. CASE m.generation # "decimal" /\ ~generation_ok(m.generation, required)
    <3>1. RustMessage(m) = Rejected("command_invalid")
      BY <1>5, <2>2 DEF RustMessage
    <3>2. tsMessage(m) = Rejected("command_invalid")
      BY <1>5, <2>2 DEF tsMessage, generation_ok
    <3>3. QED  BY <3>1, <3>2
  <2>3. CASE m.generation # "decimal" /\ generation_ok(m.generation, required)
    <3> DEFINE made(what) == Forwarded(what, m.generation)
               ends == m.type = "rtc.ice_candidate" /\ m.body = "null"
    <3>1. tsMessage(m) = IF m.body \in {"usable", "loose"} THEN made("usable")
                         ELSE IF ends THEN made("null") ELSE Rejected("plain")
      BY <1>5, <2>3 DEF tsMessage, generation_ok
    <3>2. CASE \/ m.body = "usable"
               \/ m.body = "loose" /\ m.type = "rtc.offer"
      <4>1. RustMessage(m) = made("usable")
        BY <1>5, <2>3, <3>2 DEF RustMessage, offer_ok, candidate_ok
      <4>2. QED  BY <3>1, <3>2, <4>1
    <3>3. CASE m.body = "loose" /\ m.type = "rtc.ice_candidate"
      <4>1. RustMessage(m) = made("loose")
        BY <1>5, <2>3, <3>3 DEF RustMessage, candidate_ok
      <4>2. tsMessage(m) = made("usable")
        BY <3>1, <3>3
      <4>3. made("loose") = [made("usable") EXCEPT !.what = "loose"]
        BY DEF Forwarded
      <4>4. QED  BY <3>3, <4>1, <4>2, <4>3 DEF Forwarded
    <3>4. CASE ends
      <4>1. RustMessage(m) = made("null")
        BY <1>5, <2>3, <3>4 DEF RustMessage, candidate_ok
      <4>2. QED  BY <3>1, <3>4, <4>1
    <3>5. CASE m.body \notin {"usable", "loose", "absent"} /\ ~ends
      <4>1. RustMessage(m) = Rejected("plain")
        BY <1>5, <2>3, <3>5 DEF RustMessage, offer_ok, candidate_ok
      <4>2. QED  BY <3>1, <3>5, <4>1
    <3>6. CASE m.body = "absent"
      BY <3>1, <3>6 DEF Rejected
    <3>7. \/ m.body = "usable"
          \/ m.body = "loose" /\ m.type = "rtc.offer"
          \/ m.body = "loose" /\ m.type = "rtc.ice_candidate"
          \/ ends
          \/ m.body = "absent"
          \/ m.body \notin {"usable", "loose", "absent"} /\ ~ends
      BY <1>5
    <3> HIDE DEF ends
    <3>8. QED  BY <3>2, <3>3, <3>4, <3>5, <3>6, <3>7
  <2>4. QED  BY <2>1, <2>2, <2>3
<1>6. QED  BY <1>1, <1>3, <1>4, <1>5 DEF Parses

(* THE MESSAGE THEOREM: for every message of a browser, both gateways      *)
(* forward the same command or reject it with the same error, but for a    *)
(* binary frame, a generation written 1.0, a message without a candidate,  *)
(* and ill-typed optional fields of a candidate.                           *)
THEOREM GatewaysAreAlike == Spec => []GatewaysAgree
<1>1. PayloadInv /\ ReadInv => GatewaysAgree
  <2> SUFFICES ASSUME PayloadInv, ReadInv, Read("message")
               PROVE  GatewaysAgree
    BY DEF GatewaysAgree
  <2>1. input.message \in Messages
    BY DEF PayloadInv, Read, Events
  <2>2. rust = RustMessage(input.message) /\ ts = tsMessage(input.message)
    BY DEF ReadInv
  <2>3. QED  BY <2>1, <2>2, MessagesAgree DEF GatewaysAgree
<1>2. QED  BY <1>1, ReadOnce, PTL

-----------------------------------------------------------------------------
(* Speech contexts.                                                        *)

(* Without repetitions a list names at most both tracks, and its length    *)
(* says how many; with the right length it has no repetitions.             *)
LEMMA TrackLists ==
    ASSUME NEW s \in Seq(Tracks)
    PROVE  /\ Len(s) = 0 => Range(s) = {}
           /\ Len(s) = 1 => Range(s) = {s[1]} /\ s[1] \in Tracks
           /\ Len(s) = 2 /\ s[1] # s[2] => Range(s) = Tracks
           /\ Len(s) = Cardinality(Range(s)) <=> IsInjective(s)
           /\ IsInjective(s) => Len(s) \in {0, 1, 2}
<1>1. DOMAIN s = 1..Len(s) /\ Len(s) \in Nat /\ \A i \in 1..Len(s) : s[i] \in Tracks
  OBVIOUS
<1>2. Len(s) = 0 => Range(s) = {}
  BY <1>1 DEF Range
<1>3. Len(s) = 1 => Range(s) = {s[1]} /\ s[1] \in Tracks
  BY <1>1 DEF Range
<1>4. Len(s) = 2 => Range(s) = {s[1], s[2]} /\ s[1] \in Tracks /\ s[2] \in Tracks
  BY <1>1 DEF Range
<1>5. Range(s) \in {{}, {"speaker"}, {"sounds"}, Tracks}
  BY <1>1 DEF Range, Tracks
<1>6. /\ Cardinality({}) = 0 /\ Cardinality({"speaker"}) = 1
      /\ Cardinality({"sounds"}) = 1 /\ Cardinality(Tracks) = 2
  <2>1. Cardinality({}) = 0  BY FS_EmptySet
  <2>2. /\ IsFiniteSet({"speaker"})
        /\ Cardinality({"speaker"}) = 1 /\ Cardinality({"sounds"}) = 1
    BY FS_Singleton
  <2> DEFINE one == {"speaker"}
  <2>3. Cardinality(one \cup {"sounds"}) = Cardinality(one) + 1
    <3>1. "sounds" \notin one  OBVIOUS
    <3> HIDE DEF one
    <3>2. IsFiniteSet(one)  BY <2>2 DEF one
    <3>3. QED  BY <3>1, <3>2, FS_AddElement
  <2>4. one \cup {"sounds"} = Tracks
    BY DEF Tracks
  <2>5. Cardinality(Tracks) = 2
    <3>1. Cardinality(one) = 1  BY <2>2
    <3> HIDE DEF one
    <3>2. Cardinality(Tracks) = Cardinality(one) + 1  BY <2>3, <2>4
    <3>3. Cardinality(Tracks) = 1 + 1  BY <3>1, <3>2
    <3>4. QED  BY <3>3
  <2>6. QED  BY <2>1, <2>2, <2>5
<1>7. IsInjective(s) => Len(s) \in {0, 1, 2}
  <2> SUFFICES ASSUME IsInjective(s), Len(s) \notin {0, 1, 2} PROVE FALSE
    OBVIOUS
  <2>1. 1 \in DOMAIN s /\ 2 \in DOMAIN s /\ 3 \in DOMAIN s
    BY <1>1
  <2>2. s[1] \in Tracks /\ s[2] \in Tracks /\ s[3] \in Tracks
    BY <1>1, <2>1
  <2>3. s[1] # s[2] /\ s[1] # s[3] /\ s[2] # s[3]
    BY <2>1 DEF IsInjective
  <2>4. QED  BY <2>2, <2>3 DEF Tracks
<1>8. IsInjective(s) => Len(s) = Cardinality(Range(s))
  <2> SUFFICES ASSUME IsInjective(s) PROVE Len(s) = Cardinality(Range(s))
    OBVIOUS
  <2>1. CASE Len(s) = 0  BY <2>1, <1>2, <1>6
  <2>2. CASE Len(s) = 1  BY <2>2, <1>3, <1>6 DEF Tracks
  <2>3. CASE Len(s) = 2
    <3>1. s[1] # s[2]  BY <2>3, <1>1 DEF IsInjective
    <3>2. Range(s) = Tracks  BY <2>3, <3>1, <1>4 DEF Tracks
    <3>3. QED  BY <2>3, <3>2, <1>6
  <2>4. QED  BY <2>1, <2>2, <2>3, <1>7
<1>9. Len(s) = Cardinality(Range(s)) => IsInjective(s)
  <2> SUFFICES ASSUME Len(s) = Cardinality(Range(s)) PROVE IsInjective(s)
    OBVIOUS
  <2>1. Len(s) \in {0, 1, 2}  BY <1>5, <1>6
  <2>2. CASE Len(s) \in {0, 1}  BY <2>2, <1>1 DEF IsInjective
  <2>3. CASE Len(s) = 2
    <3>1. s[1] # s[2]
      <4>1. s[1] = s[2] => Range(s) = {"speaker"} \/ Range(s) = {"sounds"}
        BY <2>3, <1>4 DEF Tracks
      <4>2. s[1] = s[2] => Cardinality(Range(s)) = 1
        BY <4>1, <1>6
      <4>3. Cardinality(Range(s)) = 2
        BY <2>3
      <4> DEFINE n == Cardinality(Range(s))
      <4> HIDE DEF n
      <4>4. s[1] = s[2] => n = 1  BY <4>2 DEF n
      <4>5. n = 2  BY <4>3 DEF n
      <4>6. QED  BY <4>4, <4>5
    <3>2. QED  BY <2>3, <3>1, <1>1 DEF IsInjective
  <2>4. QED  BY <2>1, <2>2, <2>3
<1>10. Len(s) = 2 /\ s[1] # s[2] => Range(s) = Tracks
  BY <1>4 DEF Tracks
<1>11. QED  BY <1>2, <1>3, <1>7, <1>8, <1>9, <1>10

(* The parts of a context.                                                 *)
LEMMA ContextParts ==
    ASSUME NEW c \in SpeechContexts
    PROVE  /\ c.schema_version \in {"2", "2.0", "other"}
           /\ c.status \in {"complete", "partial", "failed", "other"}
           /\ \A f \in Fields : c[f] \in SpanKinds
           /\ c.unavailable.is \in {"absent", "null", "junk", "list"}
           /\ c.unavailable.tracks \in Seq(Tracks)
           /\ c.unavailable.is # "list" => Len(c.unavailable.tracks) = 0
<1>1. c.unavailable \in Unavailable
  BY DEF SpeechContexts
<1>2. CASE c.unavailable \in [is : {"absent", "null", "junk"}, tracks : {<<>>}]
  <2>1. c.unavailable.tracks = <<>>
    BY <1>2
  <2>2. c.unavailable.tracks \in Seq(Tracks) /\ Len(c.unavailable.tracks) = 0
    BY <2>1
  <2>3. QED  BY <1>2, <2>2 DEF SpeechContexts, Fields
<1>3. CASE c.unavailable \in
             [is : {"list"},
              tracks : UNION {[1..n -> Tracks] : n \in 0..MaxTracks}]
  <2>1. PICK n \in 0..MaxTracks : c.unavailable.tracks \in [1..n -> Tracks]
    BY <1>3
  <2>2. c.unavailable.tracks \in Seq(Tracks)
    BY <2>1, MaxTracksAssumption
  <2>3. QED  BY <1>3, <2>2 DEF SpeechContexts, Fields
<1>4. QED  BY <1>1, <1>2, <1>3 DEF Unavailable

(* is_valid's check that no track is listed twice.                         *)
LEMMA UniqueTracks ==
    ASSUME NEW s
    PROVE  (\A i, j \in DOMAIN s : i # j => s[i] # s[j]) <=> IsInjective(s)
BY DEF IsInjective

(* Deserializing and is_valid accept a context exactly if it is            *)
(* meaningful.                                                             *)
LEMMA RustAcceptsMeaningful ==
    ASSUME NEW c \in SpeechContexts
    PROVE  RustContext(c) <=> Meaningful(c)
<1> DEFINE s == c.unavailable.tracks
           missing == Range(s)
           unavailable == c.unavailable.is
           spans == /\ \A f \in Fields : c[f] \notin {"junk", "bad", "decimal"}
                    /\ c.sounds # "tuples"
           given == \A f \in Fields : Given(c, f) <=> TrackOf[f] \notin missing
<1>1. s \in Seq(Tracks) /\ (unavailable # "list" => Len(s) = 0)
  BY ContextParts
<1>2. /\ Len(s) = 0 => missing = {}
      /\ Len(s) = 1 => missing = {s[1]} /\ s[1] \in Tracks
      /\ Len(s) = 2 /\ s[1] # s[2] => missing = Tracks
      /\ Len(s) = Cardinality(missing) <=> IsInjective(s)
      /\ IsInjective(s) => Len(s) \in {0, 1, 2}
  BY <1>1, TrackLists
<1>3. s = <<>> <=> Len(s) = 0
  BY <1>1
<1>4. Len(s) = 2 /\ IsInjective(s) => missing = Tracks
  <2>1. Len(s) = 2 => 1 \in DOMAIN s /\ 2 \in DOMAIN s
    BY <1>1
  <2>2. Len(s) = 2 /\ IsInjective(s) => s[1] # s[2]
    BY <2>1 DEF IsInjective
  <2>3. QED  BY <1>2, <2>2
<1>5. /\ TrackOf["emotions"] = "speaker" /\ TrackOf["vocal"] = "speaker"
      /\ TrackOf["sounds"] = "sounds"
  BY DEF TrackOf
<1>6. given <=> /\ Given(c, "emotions") <=> "speaker" \notin missing
                /\ Given(c, "vocal") <=> "speaker" \notin missing
                /\ Given(c, "sounds") <=> "sounds" \notin missing
  BY <1>5 DEF Fields
<1>7. c.status \in {"complete", "partial", "failed", "other"}
  BY ContextParts
<1> DEFINE byStatus ==
      \/ /\ c.status = "complete" /\ \A f \in Fields : Given(c, f)
         /\ unavailable # "list"
      \/ c.status = "partial" /\ PartialValid(c, missing)
      \/ /\ c.status = "failed" /\ Len(s) = 2 /\ Tracks \subseteq missing
         /\ \A f \in Fields : ~Given(c, f)
    byCount ==
      /\ given /\ c.status = <<"complete", "partial", "failed">>[Len(s) + 1]
      /\ s = <<>> => unavailable # "list"
<1>8. RustContext(c) <=> /\ c.schema_version = "2" /\ spans
                         /\ unavailable # "junk" /\ IsInjective(s) /\ byStatus
  <2>1. is_valid(c) /\ c.status # "other" <=>
           c.schema_version = "2" /\ SpansValid(c) /\ IsInjective(s) /\ byStatus
    BY <1>7, UniqueTracks DEF is_valid
  <2>2. spans <=> /\ SpansValid(c) /\ c.sounds # "tuples"
                  /\ \A f \in Fields : c[f] \notin {"junk", "decimal"}
    BY DEF SpansValid
  <2>3. Deserializes(c) <=>
           /\ c.schema_version # "2.0" /\ c.status # "other"
           /\ \A f \in Fields : c[f] \notin {"junk", "decimal"}
           /\ c.sounds # "tuples" /\ unavailable # "junk"
    BY DEF Deserializes
  <2> HIDE DEF spans, byStatus, s, unavailable
  <2>4. byStatus => c.status # "other"
    BY DEF byStatus
  <2>5. QED  BY <2>1, <2>2, <2>3, <2>4 DEF RustContext
<1>9. Meaningful(c) <=> /\ c.schema_version = "2" /\ spans
                        /\ unavailable # "junk" /\ IsInjective(s) /\ byCount
  BY <1>2 DEF Meaningful
<1>10. ASSUME IsInjective(s) PROVE byStatus <=> byCount
  <2>1. CASE Len(s) = 0
    <3>1. byCount <=> /\ \A f \in Fields : Given(c, f)
                      /\ c.status = "complete" /\ unavailable # "list"
      BY <2>1, <1>2, <1>3
    <3>2. byStatus <=> /\ \A f \in Fields : Given(c, f)
                       /\ c.status = "complete" /\ unavailable # "list"
      BY <2>1 DEF PartialValid
    <3>3. QED  BY <3>1, <3>2
  <2>2. CASE Len(s) = 1
    <3>1. byCount <=> c.status = "partial" /\ given
      BY <2>2, <1>3
    <3>2. unavailable = "list"
      BY <2>2, <1>1
    <3>3. byStatus <=> c.status = "partial" /\ PartialValid(c, missing)
      BY <2>2, <3>2
    <3>4. PartialValid(c, missing) <=> given
      BY <2>2, <1>6 DEF PartialValid, Given
    <3>5. QED  BY <3>1, <3>3, <3>4
  <2>3. CASE Len(s) = 2
    <3>1. missing = Tracks
      BY <2>3, <1>4, <1>10
    <3>2. unavailable = "list"
      BY <2>3, <1>1
    <3>3. given <=> \A f \in Fields : ~Given(c, f)
      BY <3>1, <1>6 DEF Fields, Tracks
    <3>4. byCount <=> c.status = "failed" /\ given
      BY <2>3, <1>3
    <3>5. byStatus <=> c.status = "failed" /\ \A f \in Fields : ~Given(c, f)
      BY <2>3, <3>1, <3>2 DEF PartialValid
    <3>6. QED  BY <3>3, <3>4, <3>5
  <2>4. QED  BY <1>2, <1>10, <2>1, <2>2, <2>3
<1> HIDE DEF spans, byStatus, byCount, s, unavailable
<1>11. QED  BY <1>8, <1>9, <1>10

(* THE CONTEXT THEOREM: for every list of unavailable tracks, Rust hands   *)
(* on the contexts in which spans, tracks and status say the same, and no  *)
(* others.                                                                 *)
THEOREM ContextsAreMeaningful == Spec => []ContextMeaningful
<1>1. PayloadInv /\ ReadInv => ContextMeaningful
  <2> SUFFICES ASSUME PayloadInv, ReadInv, Read("context")
               PROVE  rust = "accepted" <=> Meaningful(input.context)
    BY DEF ContextMeaningful
  <2>1. input.context \in SpeechContexts
    BY DEF PayloadInv, Read, Events
  <2>2. rust = IF RustContext(input.context) THEN "accepted" ELSE None
    BY DEF ReadInv
  <2>3. rust = "accepted" <=> RustContext(input.context)
    BY <2>2 DEF None
  <2>4. QED  BY <2>1, <2>3, RustAcceptsMeaningful
<1>2. QED  BY <1>1, ReadOnce, PTL

(* optionalSpeechContext takes a meaningful context unless a value in it   *)
(* is one that TypeScript reads otherwise.                                 *)
LEMMA TsAcceptsMeaningful ==
    ASSUME NEW c \in SpeechContexts, Meaningful(c),
           c.unavailable.is # "null", c.written = "object",
           \A f \in Fields : c[f] \notin {"unsafe", "tuples"}
    PROVE  tsContext(c)
<1> DEFINE s == c.unavailable.tracks
           missing == Range(s)
           unavailable == c.unavailable.is
<1>1. /\ s \in Seq(Tracks) /\ (unavailable # "list" => Len(s) = 0)
      /\ unavailable \in {"absent", "null", "junk", "list"}
      /\ \A f \in Fields : c[f] \in SpanKinds
  BY ContextParts
<1>2. /\ \A f \in Fields : Given(c, f) <=> TrackOf[f] \notin missing
      /\ \A f \in Fields : c[f] \notin {"junk", "bad", "decimal"}
      /\ unavailable # "junk" /\ c.schema_version = "2"
      /\ Len(s) = Cardinality(missing)
      /\ c.status = <<"complete", "partial", "failed">>[Len(s) + 1]
      /\ s = <<>> => unavailable # "list"
  BY DEF Meaningful
<1>3. \A f \in Fields : tsSpans(c, f) <=> Given(c, f)
  BY <1>1, <1>2 DEF tsSpans, Given, SpanKinds
<1>4. /\ tsSpans(c, "emotions") <=> "speaker" \notin missing
      /\ tsSpans(c, "vocal") <=> "speaker" \notin missing
      /\ tsSpans(c, "sounds") <=> "sounds" \notin missing
  BY <1>2, <1>3 DEF Fields, TrackOf
<1>5. /\ IsInjective(s) /\ Len(s) \in {0, 1, 2}
      /\ Len(s) = 0 => missing = {}
  BY <1>1, <1>2, TrackLists
<1>6. CASE Len(s) = 0
  <2>1. c.status = "complete"
    BY <1>2, <1>6
  <2>2. unavailable = "absent"
    BY <1>1, <1>2, <1>6
  <2>3. \A f \in Fields : tsSpans(c, f)
    BY <1>4, <1>5, <1>6 DEF Fields
  <2>4. QED  BY <1>2, <2>1, <2>2, <2>3 DEF tsContext
<1>7. CASE Len(s) \in {1, 2}
  <2>1. unavailable = "list"
    <3>1. unavailable # "list" => Len(s) = 0  BY <1>1
    <3> HIDE DEF s, unavailable
    <3>2. Len(s) # 0  BY <1>7
    <3>3. QED  BY <3>1, <3>2
  <2>2. \/ c.status = "partial" /\ Len(s) = 1
        \/ c.status = "failed" /\ Len(s) = 2
    BY <1>2, <1>7
  <2>3. ("sounds" \in missing) = ~tsSpans(c, "sounds")
    BY <1>4 DEF tsSpans
  <2>4. QED  BY <1>2, <1>4, <1>5, <2>1, <2>2, <2>3 DEF tsContext
<1>8. QED  BY <1>5, <1>6, <1>7

(* THE CONTEXT COMPARISON: what Rust accepts TypeScript accepts too, but   *)
(* for "unavailable": null, times above 2^53, arrays in place of objects   *)
(* and tagged variants.                                                    *)
THEOREM ContextsAreAlike == Spec => []ContextsAgree
<1>1. PayloadInv /\ ReadInv => ContextsAgree
  <2> SUFFICES ASSUME PayloadInv, ReadInv, Read("context"), rust = "accepted",
                      input.context.unavailable.is # "null",
                      input.context.written = "object",
                      \A f \in Fields :
                          input.context[f] \notin {"unsafe", "tuples"}
               PROVE  ts = "accepted"
    BY DEF ContextsAgree
  <2>1. input.context \in SpeechContexts
    BY DEF PayloadInv, Read, Events
  <2>2. /\ rust = IF RustContext(input.context) THEN "accepted" ELSE None
        /\ ts = IF tsContext(input.context) THEN "accepted" ELSE None
    BY DEF ReadInv
  <2>3. Meaningful(input.context)
    BY <2>1, <2>2, RustAcceptsMeaningful DEF None
  <2>4. tsContext(input.context)
    BY <2>1, <2>3, TsAcceptsMeaningful
  <2>5. QED  BY <2>2, <2>4
<1>2. QED  BY <1>1, ReadOnce, PTL
===============================================================================
