------------------------------- MODULE Requests -------------------------------
(***************************************************************************)
(* What the server makes of its input: the validation pipeline of the send  *)
(* endpoint (meta/validate.ts, meta/errors.ts) and the parser of the /ws    *)
(* frames (contract/ws-events.ts), which the auto-reply route shares        *)
(* (api/autoreply.route.ts), and the choice of an auto-reply                *)
(* (core/autoreply.ts), against the documented order of the checks and the  *)
(* limits of the layers below.  The registry is fixed; what an accepted     *)
(* request does is in the modules Registry, Delivery and Sessions.          *)
(*                                                                         *)
(* A request is a record of what the code tests for.  A text is its length. *)
(***************************************************************************)
EXTENDS Integers, Sequences, FiniteSets, FiniteSetsExt

CONSTANTS
    Display,        \* the registered businesses: phone_number_id -> display number,
                    \* which stands for every key with its digits
    Customers,      \* the customers' numbers
    Received,       \* the messages of customers: wamid -> phone_number_id
    Strangers,      \* what nobody has: as id, as number, as wamid
    Malformed,      \* a `to' that is no phone number
    Absent          \* a header or field that is missing or of a wrong type

Ours == DOMAIN Display
Displays == {Display[i] : i \in Ours}

ASSUME AbsentAssumption == Absent \notin Ours

MaxTextLength == 4096       \* meta/validate.ts
MaxBodyLength == 4096       \* contract/ws-events.ts
MaxDelay == 30000

-----------------------------------------------------------------------------
\* The catalogue of errors.ts, as far as Comdove tells errors apart.
Code == [unknown_object |-> 100, invalid_token |-> 190, invalid_param |-> 100,
         not_implemented |-> 100, undeliverable |-> 131026, rate_limit |-> 130429]

Error(k, forced) ==
    [kind    |-> "error",
     status  |-> IF k = "invalid_token" THEN 401 ELSE 400,
     code    |-> Code[k],
     subcode |-> IF k = "unknown_object" THEN 33 ELSE 0,
     forced  |-> forced]

Fail(k) == Error(k, FALSE)

\* X-Mock-Force-Error by the code it asks for, and what any other value comes to
\* (save the names of the properties that every JavaScript object inherits).
ForcedKind(header) ==
    CASE header = 190    -> "invalid_token"
      [] header = 33     -> "unknown_object"
      [] header = 131026 -> "undeliverable"
      [] header = 130429 -> "rate_limit"
      [] OTHER           -> "invalid_param"

\* getBusiness(): by phone_number_id or by display number.  SQLite answers the
\* first term first: an id wins over another business's display number.
LookUp(key) ==
    IF key \in Ours THEN key
    ELSE IF key \in Displays THEN CHOOSE i \in Ours : Display[i] = key ELSE Absent

AddressedByAnyNumber(r) == LookUp(r.id) # Absent                  \* mutant
\* A display number finds the business, but is not a Graph object id.
Addressed(r) == LookUp(r.id) # Absent /\ LookUp(r.id) = r.id

\* The recipient of a send, after everything else about it was found right.
Send(r) ==
    IF r.to \in {Absent, Malformed} THEN Fail("invalid_param")
    ELSE IF r.to \notin Customers THEN Fail("undeliverable")
    ELSE [kind |-> "send", business |-> LookUp(r.id), to |-> r.to]

MarkAsRead(r) ==
    IF r.status # "read" \/ r.wamid \notin DOMAIN Received THEN Fail("invalid_param")
    ELSE IF Received[r.wamid] # LookUp(r.id) THEN Fail("invalid_param")
    ELSE [kind |-> "read", business |-> LookUp(r.id), wamid |-> r.wamid]

Body(r) ==
    IF r.json # "object" \/ r.product # "whatsapp" THEN Fail("invalid_param")
    ELSE IF r.type = "none" /\ r.status # "none" THEN MarkAsRead(r)
    ELSE IF r.type = "none" THEN Fail("invalid_param")
    ELSE IF r.type = "template" THEN Send(r)
    ELSE IF r.type # "text" THEN Fail("not_implemented")
    ELSE IF r.text \notin 1 .. MaxTextLength THEN Fail("invalid_param")
    ELSE Send(r)

\* validate(): `auth' is the business whose token the request bears.
Validate(r) ==
    IF r.force # 0 THEN Error(ForcedKind(r.force), TRUE)
    ELSE IF ~Addressed(r) THEN Fail("unknown_object")
    ELSE IF r.auth # LookUp(r.id) THEN Fail("invalid_token")
    ELSE Body(r)

\* A body that express.json() cannot parse does not get to validate(): the Meta
\* error handler answers it, whatever else is in the request, and logs nothing.
Answer(r) ==
    IF r.json = "invalid" THEN Fail("invalid_param") ELSE Validate(r)

-----------------------------------------------------------------------------
\* A frame is accepted or refused with a code.  Text fields are lengths, 0 for
\* one that is blank, missing or not a string at all.
Frames ==
    [json : {"invalid", "array", "object"},
     type : {"none", "unknown", "message.send", "tile.autoreply"},
     number : {0, 12}, to : {0, 12},
     body : {0, 1, MaxBodyLength, MaxBodyLength + 1},
     mode : {"manual", "echo", "keyword", "loud"},
     delay : {-1, 0, 1, MaxDelay, MaxDelay + 1},
     whole : BOOLEAN,
     rules : {"none", "good", "bad"}]

BodyOk(f) == f.body > 0 /\ f.body <= MaxBodyLength

DelayOkOffByOne(f) == f.whole /\ f.delay >= 0 /\ f.delay <= MaxDelay + 1  \* mutant
DelayOk(f) == f.whole /\ f.delay >= 0 /\ f.delay <= MaxDelay

AutoReplyOk(f) ==
    /\ f.mode \in {"manual", "echo", "keyword"}
    /\ DelayOk(f)
    /\ f.rules = "good"

\* readEvent(): the fields of the two frames whose fields have limits.
FieldsOk(f) ==
    CASE f.type = "message.send"   -> f.number > 0 /\ f.to > 0 /\ BodyOk(f)
      [] f.type = "tile.autoreply" -> f.number > 0 /\ AutoReplyOk(f)

ParseClientEvent(f) ==
    IF f.json # "object" THEN "bad_json"
    ELSE IF f.type = "none" THEN "bad_request"
    ELSE IF f.type = "unknown" THEN "unknown_type"
    ELSE IF FieldsOk(f) THEN "ok" ELSE "bad_request"

\* PUT /customers/:number/auto-reply goes through the same parser; a missing
\* delay is 0 and missing rules are the empty list.
PutAutoReply(f, noDelay) ==
    ParseClientEvent([f EXCEPT !.json = "object", !.type = "tile.autoreply",
                               !.delay = IF noDelay THEN 0 ELSE @,
                               !.whole = noDelay \/ @,
                               !.rules = IF @ = "none" THEN "good" ELSE @])

\* The CHECKs of the customers table, and lifecycle.inbound()'s test.
FitsSchema(mode, delay) == mode \in {"manual", "echo", "keyword"} /\ delay \in 0 .. MaxDelay
FitsLifecycle(length) == length > 0 /\ length <= MaxTextLength

-----------------------------------------------------------------------------
\* A message to a customer is the keywords it contains, as the code compares
\* them, and a length; a rule is a keyword and the length of its reply.
Keywords == {"alpha", "beta"}
Bodies == [words : SUBSET Keywords, length : {1, MaxTextLength, MaxTextLength + 1}]
Rules == [keyword : Keywords, reply : {1, MaxTextLength + 1}]
Configs == [customer : BOOLEAN, mode : {"manual", "echo", "keyword"},
            rules : {<<>>} \cup {<<r>> : r \in Rules} \cup (Rules \X Rules)]

Silence == [from |-> "nobody", length |-> 0]

Hits(rules, body) == {i \in DOMAIN rules : rules[i].keyword \in body.words}

PickLast(mode, body, rules) ==                                    \* mutant
    IF mode = "keyword" /\ Hits(rules, body) # {}
    THEN [from |-> "rule", length |-> rules[Max(Hits(rules, body))].reply]
    ELSE IF mode = "echo" THEN [from |-> "body", length |-> body.length] ELSE Silence
\* pickReply(): the first rule whose keyword the message contains.
PickReply(mode, body, rules) ==
    IF mode = "keyword" /\ Hits(rules, body) # {}
    THEN [from |-> "rule", length |-> rules[Min(Hits(rules, body))].reply]
    ELSE IF mode = "echo" THEN [from |-> "body", length |-> body.length] ELSE Silence

\* computeReply(): nothing for a customer who is gone or who replies by hand.
ComputeReply(config, body) ==
    IF ~config.customer \/ config.mode = "manual" THEN Silence
    ELSE PickReply(config.mode, body, config.rules)

\* The timer's inbound(): a reply that does not fit is caught and logged.
Replied(config, body) ==
    LET reply == ComputeReply(config, body)
    IN  IF FitsLifecycle(reply.length) THEN reply ELSE Silence

-----------------------------------------------------------------------------
Wamids == DOMAIN Received
SendRequests ==
    [force : {0, 190, 33, 100, 131026, 130429, 7},
     id : Ours \cup Displays \cup Strangers, auth : Ours \cup {Absent},
     json : {"invalid", "array", "object"},
     product : {"whatsapp", "other"}, type : {"none", "text", "template", "image"},
     status : {"none", "read", "delivered"}, wamid : Wamids \cup Strangers,
     text : {0, 1, MaxTextLength, MaxTextLength + 1},
     to : {Absent, Malformed} \cup Customers \cup Displays \cup Strangers]

VARIABLES
    source,     \* where the request at hand has come from, or "nowhere"
    request,    \* the request, and
    answer      \* what it was answered

vars == <<source, request, answer>>

Init == source = "nowhere" /\ request = <<>> /\ answer = <<>>

PostMessages ==
    /\ source = "nowhere"
    /\ \E r \in SendRequests : request' = r /\ answer' = Answer(r)
    /\ source' = "meta"

Frame ==
    /\ source = "nowhere"
    /\ \E f \in Frames : request' = f /\ answer' = ParseClientEvent(f)
    /\ source' = "ws"

Put ==
    /\ source = "nowhere"
    /\ \E f \in Frames, noDelay \in BOOLEAN :
          /\ request' = [f EXCEPT !.delay = IF noDelay THEN 0 ELSE @]
          /\ answer' = PutAutoReply(f, noDelay)
    /\ source' = "api"

\* A message is delivered to a customer; the request is the pair.
AutoReply ==
    /\ source = "nowhere"
    /\ \E config \in Configs, body \in Bodies :
          /\ request' = [config |-> config, body |-> body]
          /\ answer' = Replied(config, body)
    /\ source' = "timer"

Done ==
    /\ source # "nowhere"
    /\ source' = "nowhere" /\ request' = <<>> /\ answer' = <<>>

Next == PostMessages \/ Frame \/ Put \/ AutoReply \/ Done

Spec == Init /\ [][Next]_vars

-----------------------------------------------------------------------------
IsSend(r) == r.type # "none"

\* The steps 0 to 6 of the documented pipeline, each on its own.
FailsStep(r, k) ==
    CASE k = 0 -> r.force # 0
      [] k = 1 -> r.id \notin Ours
      [] k = 2 -> r.auth # r.id
      [] k = 3 -> r.json # "object" \/ r.product # "whatsapp"
      [] k = 4 -> ~IsSend(r) /\ r.status # "read"
      [] k = 5 -> IF IsSend(r)
                  THEN \/ r.type # "text"
                       \/ ~FitsLifecycle(r.text)
                       \/ r.to \in {Absent, Malformed}
                  ELSE \A i \in Wamids : r.wamid = i => Received[i] # r.id
      [] k = 6 -> IsSend(r) /\ r.to \notin Customers

StepError(r, k) ==
    CASE k = 0 -> Error(ForcedKind(r.force), TRUE)
      [] k = 1 -> Fail("unknown_object")
      [] k = 2 -> Fail("invalid_token")
      [] k \in 3 .. 5 -> Fail("invalid_param")
      [] k = 6 -> Fail("undeliverable")

Served(r) ==
    IF IsSend(r) THEN [kind |-> "send", business |-> r.id, to |-> r.to]
    ELSE [kind |-> "read", business |-> r.id, wamid |-> r.wamid]

\* The error of the first documented step that fails; else the request is served,
\* for the business of the path.
Documented(r) ==
    LET failed == {k \in 0 .. 6 : FailsStep(r, k)}
    IN  IF failed = {} THEN Served(r) ELSE StepError(r, Min(failed))

\* The list at the head of validate.ts and the build plan have texts only in step
\* 5; a comment further down accepts templates, `so they show up in the fake UI'.
\* They are taken for the text that is made of them.
AsText(r) == IF r.type = "template" THEN [r EXCEPT !.type = "text", !.text = 1] ELSE r

\* The order of the pipeline's checks decides which error Comdove sees: it is the
\* documented one, but for two departures.  A template passes for a text; and a
\* body that is no JSON is refused before step 0 and not in step 3, even when an
\* error is forced.  An id that is another business's number changes nothing.
PipelineOrder ==
    source = "meta" =>
        answer = IF request.json = "invalid" THEN Fail("invalid_param")
                 ELSE Documented(AsText(request))

\* Whatever the parser lets through, by a frame or by the PUT route, the table's
\* CHECKs and the lifecycle's limits take: no handler throws on good input.
AcceptedInputFits ==
    (source \in {"ws", "api"} /\ answer = "ok") =>
        IF source = "ws" /\ request.type = "message.send"
        THEN FitsLifecycle(request.body)
        ELSE FitsSchema(request.mode, request.delay)

\* The timer says what is configured and nothing else: the first rule whose
\* keyword the message has, or the message itself, for a customer who is there;
\* and it is silent only when there is no such reply or the reply does not fit,
\* for neither a rule's reply nor the text of a template has a limit of its own.
RepliesAsConfigured ==
    source = "timer" =>
        LET c       == request.config
            b       == request.body
            Fits(i) == c.rules[i].keyword \in b.words
            firsts  == {i \in DOMAIN c.rules : Fits(i) /\ \A q \in 1 .. i - 1 : ~Fits(q)}
            due     == CASE c.mode = "manual"  -> {}
                         [] c.mode = "echo"    -> {[from |-> "body", length |-> b.length]}
                         [] c.mode = "keyword" ->
                               {[from |-> "rule", length |-> c.rules[i].reply] : i \in firsts}
            said    == {reply \in due : c.customer /\ reply.length \in 1 .. MaxTextLength}
        IN  answer \in said \/ (said = {} /\ answer = Silence)
===============================================================================
