------------------------------- MODULE Payloads -------------------------------
(***************************************************************************)
(* What the server SDKs make of JSON they did not write: the typed         *)
(* listeners of a control session, the validator of a transcript's speech  *)
(* context, and the gateway's parser of browser messages.  The Rust code   *)
(* (rtcserver/src/session.rs, types.rs and gateway.rs) is set against the  *)
(* TypeScript code that reads the same payloads (vox-rtc-server).          *)
(*                                                                         *)
(* A JSON value is abstracted to its kind, as far as some reader tells     *)
(* kinds apart; two values of one kind are treated alike everywhere.  The  *)
(* payloads are those that both languages parse, with text that both trim  *)
(* alike: lone surrogates, numbers beyond a double's range or U+FEFF, for  *)
(* example, are left out.                                                  *)
(***************************************************************************)
EXTENDS Naturals, Sequences, FiniteSets, Functions

CONSTANT MaxTracks      \* the longest list of unavailable tracks in a payload

ASSUME MaxTracksAssumption == MaxTracks \in Nat

Strings  == {"empty", "blank", "text"}         \* "", "  ", "x"
Integers == {"negative", "zero", "natural", "unsafe"}   \* those of an i64
Unsafe   == {"unsafe", "huge"}                 \* above 2^53, above 2^63
Numbers  == Integers \cup {"huge", "fraction", "decimal"}   \* decimal: 1.0
Arrays   == {"strings", "mixed"}               \* ["x"], ["x", {}]
Kinds    == Strings \cup Numbers \cup Arrays \cup
            {"absent", "null", "true", "false", "object"}

-----------------------------------------------------------------------------
(* The readers of types.rs.                                                *)

None == "None"

optional_string(v) == IF v \in Strings THEN v ELSE None

(* Mutant of required_string: an empty string is not replaced.             *)
KeepsEmpty(v, fallback) == IF v \in Strings THEN v ELSE fallback

required_string(v, fallback) ==
    IF v \in Strings \ {"empty"} THEN v ELSE fallback

optional_nonempty_string(v) == required_string(v, None)

(* A number read as a double; 2^53 + 1 has none of its own.                *)
as_f64(v) == IF v \in Unsafe THEN "rounded" ELSE v

optional_number(v) == IF v \in Numbers THEN as_f64(v) ELSE None

optional_i64(v) == IF v \in Integers THEN v ELSE None

recoverable_flag(v) == IF v \in {"true", "false"} THEN v ELSE "true"

optional_string_vec(v) == IF v = "strings" THEN v ELSE None

u64_or_zero(v) == IF v \in {"zero", "natural"} \cup Unsafe THEN v ELSE "zero"

(* transcript_entities and transcript_words keep the items that are        *)
(* objects (their fields are read below); what is no array counts as an    *)
(* empty one.                                                              *)
objects_of(v) == IF v = "mixed" THEN "objects" ELSE "no items"

as_object(v) == IF v = "object" THEN v ELSE None

value_or_null(v) == IF v = "absent" THEN "null" ELSE v

-----------------------------------------------------------------------------
(* The typed listeners: which field of the event is read how, by Rust and  *)
(* by TypeScript.                                                          *)

str    == <<"string", "string">>
id     == <<"nonempty", "string">>       \* Rust takes an empty id for None
number == <<"number", "number">>
text(fallback) == <<fallback, fallback>> \* required_string

(* One event's fields and those that it shares with others.                *)
With(f, g) ==
    [x \in DOMAIN f \cup DOMAIN g |-> IF x \in DOMAIN f THEN f[x] ELSE g[x]]

(* Rust names the session it was created for, TypeScript the one that the  *)
(* payload names, if it does.                                              *)
base == [session_id |-> <<"fixed", "own">>]

on_session_created == [session |-> <<"object", "object">>]

on_transcript ==
    [transcript |-> text("empty"), language |-> str, start_ms |-> number,
     end_ms |-> number, eou_probability |-> number,
     topics |-> <<"strings", "strings">>, entities |-> <<"items", "items">>,
     words |-> <<"items", "items">>]

on_turn_state_changed == [state |-> text("unknown"), previous_state |-> str]

on_speech_started == [timestamp_ms |-> number]

on_speech_stopped == [timestamp_ms |-> number]

on_transcript_delta ==
    [delta |-> text("empty"), start_ms |-> number, end_ms |-> number]

on_turn_eou_predicted ==
    [probability |-> number, threshold |-> number, delay_ms |-> number,
     start_ms |-> number, end_ms |-> number, decision |-> str, action |-> str,
     turn_detector |-> str]

response_event ==
    [response_id |-> str, generation_id |-> id,
     supersedes_generation_id |-> id, superseded_by_generation_id |-> id,
     reason |-> id, output |-> <<"object", "object">>]

(* on_response_created, _committed, _done, _cancelled and _audio_clear.    *)
on_response_event == response_event

on_response_spoken_text ==
    With(response_event,
         [spoken_text |-> text("empty"),
          partial_status |-> text("partial_omitted"),
          played_audio_ms |-> <<"numberOrZero", "numberOrZero">>])

on_interruption_event ==
    With(response_event,
         [vad_active_ms |-> number,
          partial_transcript |-> <<"string", "stringOrNull">>])

on_browser_event ==
    [event |-> text("empty"), payload |-> <<"value", "value">>]

on_close ==
    [reason |-> text("unknown"), connection_state |-> str,
     ice_connection_state |-> str, data_channel_state |-> str]

on_error ==
    [message |-> str, code |-> id, generation_id |-> id,
     recoverable |-> <<"recoverable", "recoverable">>]

on_signaling_error == [message |-> str, generation |-> <<"i64", "number">>]

Listeners ==
    [session_attached |-> <<>>, session_created |-> on_session_created,
     transcript |-> on_transcript,
     turn_state_changed |-> on_turn_state_changed,
     speech_started |-> on_speech_started, speech_stopped |-> on_speech_stopped,
     transcript_delta |-> on_transcript_delta,
     turn_eou_predicted |-> on_turn_eou_predicted,
     response |-> on_response_event,
     response_spoken_text |-> on_response_spoken_text,
     interruption |-> on_interruption_event,
     browser_event |-> on_browser_event, close |-> on_close,
     error |-> on_error, signaling_error |-> on_signaling_error]

(* The objects inside an event.  Rust has no entity or word without its    *)
(* offsets or times; a response's output is dropped with its model, its    *)
(* language, its speed or its params.                                      *)
transcript_entity ==
    [type |-> text("empty"), text |-> text("empty"),
     start_char |-> <<"u64OrZero", "number">>,
     end_char |-> <<"u64OrZero", "number">>]

transcript_word ==
    [word |-> text("empty"), start_ms |-> <<"numberOrZero", "number">>,
     end_ms |-> <<"numberOrZero", "number">>, confidence |-> number]

response_output ==
    [model |-> <<"nonempty", "nonempty">>, voice |-> id,
     language |-> <<"nonempty", "nonempty">>, speed |-> number,
     params |-> <<"object", "object">>]

Parts ==
    [entity |-> transcript_entity, word |-> transcript_word,
     output |-> response_output]

FieldsOf(event) ==
    IF event \in DOMAIN Parts THEN Parts[event]
                              ELSE With(base, Listeners[event])

(* Readers by name; any other name is the fallback of a required string.   *)
RustReads(reader, v) ==
    CASE reader = "string"       -> optional_string(v)
      [] reader = "nonempty"     -> optional_nonempty_string(v)
      [] reader = "number"       -> optional_number(v)
      [] reader = "numberOrZero" -> IF optional_number(v) = None
                                    THEN "zero" ELSE optional_number(v)
      [] reader = "u64OrZero"    -> u64_or_zero(v)
      [] reader = "i64"          -> optional_i64(v)
      [] reader = "recoverable"  -> recoverable_flag(v)
      [] reader = "strings"      -> optional_string_vec(v)
      [] reader = "items"        -> objects_of(v)
      [] reader = "object"       -> as_object(v)
      [] reader = "value"        -> value_or_null(v)
      [] reader = "fixed"        -> "own"
      [] OTHER                   -> required_string(v, reader)

(* The readers of session.ts.                                              *)
TsReads(reader, v) ==
    LET When(kinds, otherwise) == IF v \in kinds THEN v ELSE otherwise IN
    CASE reader = "string"       -> When(Strings, None)
      [] reader = "nonempty"     -> When(Strings \ {"empty"}, None)
      [] reader = "number"       -> IF v \in Numbers THEN as_f64(v) ELSE None
      [] reader = "numberOrZero" -> IF v \in Numbers THEN as_f64(v) ELSE "zero"
      [] reader = "recoverable"  -> When({"true", "false"}, "true")
      [] reader = "strings"      -> When({"strings"}, None)
      [] reader = "items"        -> IF v \in Arrays THEN objects_of(v) ELSE None
      [] reader = "object"       -> When({"object"}, None)
      [] reader = "value"        -> IF v = "absent" THEN "null" ELSE as_f64(v)
      [] reader = "stringOrNull" -> When(Strings \cup {"null"}, None)
      [] OTHER                   -> When(Strings \ {"empty"}, reader)

-----------------------------------------------------------------------------
(* Speech contexts.                                                        *)

Tracks == {"speaker", "sounds"}
Fields == {"emotions", "vocal", "sounds"}

(* A list of spans: junk is not made of spans, bad has an empty label, an  *)
(* end before its start or a score out of range, decimal has times like    *)
(* 1.0, unsafe has times above 2^53, and tuples has spans like             *)
(* ["calm", 0, 1].                                                         *)
SpanKinds == {"absent", "null", "junk", "bad", "none", "good", "decimal",
              "unsafe", "tuples"}

Unavailable ==
    [is : {"absent", "null", "junk"}, tracks : {<<>>}] \cup
    [is : {"list"}, tracks : UNION {[1..n -> Tracks] : n \in 0..MaxTracks}]

(* A context is written as an object, as an array of its fields, or with   *)
(* its status or a track tagged: {"partial": null}.  A field that is       *)
(* absent from an array is left off its end, or a null in its place.       *)
SpeechContexts ==
    [written : {"object", "array", "tagged"},
     schema_version : {"2", "2.0", "other"},
     status : {"complete", "partial", "failed", "other"},
     emotions : SpanKinds, vocal : SpanKinds, sounds : SpanKinds,
     unavailable : Unavailable]

Given(c, f) == c[f] \notin {"absent", "null"}

(* serde_json::from_value::<SpeechContext>.  What serde derives takes an   *)
(* array for a struct and {"partial": null} for a variant, but no array    *)
(* for a struct with a flattened field, as a span of sounds is.            *)
Deserializes(c) ==
    /\ c.schema_version # "2.0" /\ c.status # "other"
    /\ \A f \in Fields : c[f] \notin {"junk", "decimal"}
    /\ c.sounds # "tuples"
    /\ c.unavailable.is # "junk"

(* Mutant of SpansValid: zero-length spans and empty labels pass.          *)
SpansUnchecked(c) == TRUE

SpansValid(c) == \A f \in Fields : c[f] # "bad"

(* Mutant of PartialValid: vocal is not looked at.                         *)
PartialForgetsVocal(c, missing) ==
    /\ Len(c.unavailable.tracks) = 1
    /\ ("speaker" \in missing) = ~Given(c, "emotions")
    /\ ("sounds" \in missing) = ~Given(c, "sounds")

PartialValid(c, missing) ==
    /\ Len(c.unavailable.tracks) = 1
    /\ ("speaker" \in missing) = ~Given(c, "emotions")
    /\ ("speaker" \in missing) = ~Given(c, "vocal")
    /\ ("sounds" \in missing) = ~Given(c, "sounds")

is_valid(c) ==
    LET tracks == c.unavailable.tracks
        missing == Range(tracks)
    IN  /\ c.schema_version = "2" /\ SpansValid(c)
        /\ \A i, j \in DOMAIN tracks : i # j => tracks[i] # tracks[j]
        /\ CASE c.status = "complete" ->
                  /\ \A f \in Fields : Given(c, f)
                  /\ c.unavailable.is # "list"
             [] c.status = "partial" -> PartialValid(c, missing)
             [] c.status = "failed" ->
                  /\ Len(tracks) = 2 /\ Tracks \subseteq missing
                  /\ \A f \in Fields : ~Given(c, f)

RustContext(c) == Deserializes(c) /\ is_valid(c)

(* optionalSpeechContext of session.ts.  Spans it cannot read count as     *)
(* missing ones.                                                           *)
tsSpans(c, f) == c[f] \in {"none", "good", "decimal"}

tsContext(c) ==
    LET tracks == c.unavailable.tracks
        missing == Range(tracks)
        listed == c.unavailable.is = "list" /\ IsInjective(tracks)
    IN  /\ c.written = "object" /\ c.schema_version # "other"
        /\ CASE c.status = "complete" ->
                  /\ \A f \in Fields : tsSpans(c, f)
                  /\ c.unavailable.is = "absent"
             [] c.status \in {"partial", "failed"} ->
                  /\ listed /\ Len(tracks) = IF c.status = "failed" THEN 2 ELSE 1
                  /\ ("speaker" \in missing) =>
                        ~tsSpans(c, "emotions") /\ ~tsSpans(c, "vocal")
                  /\ ("speaker" \notin missing) =>
                        tsSpans(c, "emotions") /\ tsSpans(c, "vocal")
                  /\ ("sounds" \in missing) = ~tsSpans(c, "sounds")
             [] OTHER -> FALSE

-----------------------------------------------------------------------------
(* Messages of the browser to the gateway.  body is the offer or the       *)
(* candidate: a usable one, one with further fields, or fields of types    *)
(* that they should not have, an object that is not usable, or another     *)
(* kind; generated says that the last offer had a generation.              *)
Bodies == {"usable", "loose", "unusable", "absent", "null", "text"}

Messages ==
    [frame : {"text", "binary"}, id : {"absent", "blank", "text", "natural"},
     type : {"rtc.offer", "rtc.ice_candidate", "rtc.close", "other", "blank"},
     data : {"object", "absent"},
     generation : Kinds, body : Bodies, reason : {"absent", "text", "empty"},
     generated : BOOLEAN]

Rejected(typed) == [error |-> typed]
Forwarded(what, generation) ==
    [error |-> "no", what |-> what, generation |-> generation]

(* parse_message.                                                          *)
Parses(m) == m.id = "text" /\ m.type # "blank" /\ m.data = "object"

(* Mutant of generation_ok: zero passes.                                   *)
ZeroGeneration(v, required) ==
    IF v = "absent" THEN ~required ELSE v \in {"zero", "natural"}

(* generation(): absent only where it may be.                              *)
generation_ok(v, required) ==
    IF v = "absent" THEN ~required ELSE v = "natural"

(* offer(): a type and an SDP, whatever else there is.                     *)
offer_ok(body) == body \in {"usable", "loose"}

(* candidate(): none and null both mean the end of the candidates.         *)
candidate_ok(body) == body \in {"usable", "loose", "absent", "null"}

(* serve and handle_message, as far as they depend on the message alone.   *)
(* A candidate's optional fields are forwarded as they are.                *)
RustMessage(m) ==
    LET required == m.generated /\ m.type = "rtc.ice_candidate" IN
    IF m.frame = "binary" \/ ~Parses(m) THEN Rejected("plain")
    ELSE IF m.type = "rtc.close"
         THEN Forwarded(IF m.reason = "absent" THEN "client_closed"
                                               ELSE m.reason, "absent")
    ELSE IF m.type = "other" THEN Rejected("plain")
    ELSE IF ~generation_ok(m.generation, required)
         THEN Rejected("command_invalid")
    ELSE IF m.type = "rtc.offer" /\ offer_ok(m.body)
         THEN Forwarded("usable", m.generation)
    ELSE IF m.type = "rtc.ice_candidate" /\ candidate_ok(m.body)
         THEN Forwarded(IF m.body = "absent" THEN "null" ELSE m.body,
                        m.generation)
    ELSE Rejected("plain")

(* The same in gateway.ts: every frame is parsed, 1.0 is a safe integer,   *)
(* and a candidate must be there, if only as null; its optional fields are *)
(* null unless they have the right types.                                  *)
tsMessage(m) ==
    LET required == m.generated /\ m.type = "rtc.ice_candidate"
        signals == m.type \in {"rtc.offer", "rtc.ice_candidate"}
        generation == IF m.generation = "decimal" THEN "natural"
                                                  ELSE m.generation
    IN  CASE ~Parses(m) \/ m.type = "other" -> Rejected("plain")
          [] Parses(m) /\ m.type = "rtc.close" ->
                Forwarded(IF m.reason = "absent" THEN "client_closed"
                                                 ELSE m.reason, "absent")
          [] Parses(m) /\ signals /\ generation # "natural"
                /\ (generation # "absent" \/ required) ->
                Rejected("command_invalid")
          [] OTHER ->
                IF m.body \in {"usable", "loose"}
                THEN Forwarded("usable", generation)
                ELSE IF m.type = "rtc.ice_candidate" /\ m.body = "null"
                THEN Forwarded("null", generation)
                ELSE Rejected("plain")

-----------------------------------------------------------------------------
VARIABLES
    input,    \* the payload, with what it is
    rust, ts, \* what the two SDKs made of it
    done      \* they have read it

vars == <<input, rust, ts, done>>

Events ==
    UNION {[is : {"event"}, event : {e}, field : DOMAIN FieldsOf(e),
            value : Kinds] : e \in DOMAIN Listeners \cup DOMAIN Parts}

Init ==
    /\ \/ input \in Events
       \/ \E c \in SpeechContexts : input = [is |-> "context", context |-> c]
       \/ \E m \in Messages : input = [is |-> "message", message |-> m]
    /\ rust = None /\ ts = None /\ done = FALSE

ReadsEvent ==
    /\ input.is = "event" /\ ~done /\ done' = TRUE
    /\ LET readers == FieldsOf(input.event)[input.field] IN
       /\ rust' = RustReads(readers[1], input.value)
       /\ ts' = TsReads(readers[2], input.value)
    /\ UNCHANGED input

ReadsContext ==
    /\ input.is = "context" /\ ~done /\ done' = TRUE
    /\ rust' = IF RustContext(input.context) THEN "accepted" ELSE None
    /\ ts' = IF tsContext(input.context) THEN "accepted" ELSE None
    /\ UNCHANGED input

ReadsMessage ==
    /\ input.is = "message" /\ ~done /\ done' = TRUE
    /\ rust' = RustMessage(input.message) /\ ts' = tsMessage(input.message)
    /\ UNCHANGED input

Next == ReadsEvent \/ ReadsContext \/ ReadsMessage

Spec == Init /\ [][Next]_vars

-----------------------------------------------------------------------------
Read(what) == done /\ input.is = what

(* A handler sees the same in both SDKs, whatever the type of a field is.  *)
(* They differ on the session's id, which Rust never takes from a payload; *)
(* in four places where Rust reports nothing: ids that are empty, a        *)
(* generation that is no integer of 64 bits, a partial transcript that is  *)
(* null, and entities or words that are no array; on the times of a word   *)
(* and the offsets of an entity, which are 0 in Rust when they are missing *)
(* or, for an offset, no natural number; and on integers above 2^53 that   *)
(* Rust hands on exactly.                                                  *)
EventsAgree ==
    Read("event") =>
        \/ rust = ts
        \/ input.field = "session_id" /\ rust = "own"
        \/ /\ rust \in {None, "no items"}
           /\ \/ input.value = "empty"
              \/ input.field = "generation" /\ input.value \notin Integers
              \/ input.field = "partial_transcript" /\ input.value = "null"
              \/ input.field \in {"entities", "words"}
        \/ /\ rust = "zero" /\ input.event \in {"entity", "word"}
           /\ \/ ts = None
              \/ input.value \in {"negative", "fraction", "decimal"}
        \/ /\ rust = input.value /\ ts = "rounded"
           /\ input.field \in {"generation", "start_char", "end_char", "payload"}

(* What a context says, however it is written: every span is well formed   *)
(* (a sound is an object, since its score has no place in an array), the   *)
(* tracks with spans are exactly those that are not unavailable, and the   *)
(* status counts the ones that are: emotions and vocal are both the        *)
(* speaker's track.                                                        *)
TrackOf == [emotions |-> "speaker", vocal |-> "speaker", sounds |-> "sounds"]

Meaningful(c) ==
    LET tracks == c.unavailable.tracks IN
    /\ c.schema_version = "2" /\ c.unavailable.is # "junk"
    /\ c.sounds # "tuples"
    /\ \A f \in Fields : /\ c[f] \notin {"junk", "bad", "decimal"}
                         /\ Given(c, f) <=> TrackOf[f] \notin Range(tracks)
    /\ Len(tracks) = Cardinality(Range(tracks))
    /\ c.status = <<"complete", "partial", "failed">>[Len(tracks) + 1]
    /\ tracks = <<>> => c.unavailable.is # "list"

(* The Rust SDK hands a speech context on exactly if it is meaningful.     *)
ContextMeaningful ==
    Read("context") => (rust = "accepted" <=> Meaningful(input.context))

(* What the Rust SDK accepts the TypeScript SDK accepts too, save a        *)
(* complete context with "unavailable": null, times above 2^53, and the    *)
(* other spellings that serde takes: arrays for the context or for spans,  *)
(* and tagged variants.                                                    *)
ContextsAgree ==
    Read("context") /\ rust = "accepted" =>
        \/ ts = "accepted"
        \/ input.context.unavailable.is = "null"
        \/ input.context.written # "object"
        \/ \E f \in Fields : input.context[f] \in {"unsafe", "tuples"}

(* Both gateways forward the same commands with the same generation and    *)
(* reject the rest alike, whichever order their checks have.  They differ  *)
(* on a binary frame and a generation written 1.0, which only TypeScript   *)
(* takes, on a message without a candidate, which only Rust takes, and on  *)
(* ill-typed optional fields of a candidate, which Rust forwards as they   *)
(* are and TypeScript as null.                                             *)
GatewaysAgree ==
    Read("message") =>
        \/ rust = ts
        \/ /\ rust.error # "no"
           /\ \/ input.message.frame = "binary"
              \/ input.message.generation = "decimal"
        \/ input.message.body = "absent" /\ ts.error # "no"
        \/ /\ input.message.body = "loose" /\ ts.error = "no"
           /\ rust = [ts EXCEPT !.what = "loose"]
===============================================================================
