---------------------------- MODULE RequestsProofs ----------------------------
(***************************************************************************)
(* Proofs about Requests, for any businesses, customers and messages.       *)
(***************************************************************************)
EXTENDS Requests, TLAPS

-----------------------------------------------------------------------------
(* The request at hand and its answer.                                      *)

\* Every answer is what the handler makes of the request.
Answered ==
    /\ source = "meta" => request \in SendRequests /\ answer = Answer(request)
    /\ source = "ws" => request \in Frames /\ answer = ParseClientEvent(request)
    /\ source = "api" => \E f \in Frames, noDelay \in BOOLEAN :
                           /\ request = [f EXCEPT !.delay = IF noDelay THEN 0 ELSE @]
                           /\ answer = PutAutoReply(f, noDelay)
    /\ source = "timer" => \E config \in Configs, body \in Bodies :
                             /\ request = [config |-> config, body |-> body]
                             /\ answer = Replied(config, body)

LEMMA AnsweredHolds == Spec => []Answered
<1>1. Init => Answered
  BY DEF Init, Answered
<1>2. Answered /\ [Next]_vars => Answered'
  <2> SUFFICES ASSUME Answered, [Next]_vars PROVE Answered'
    OBVIOUS
  <2>1. CASE PostMessages
    BY <2>1 DEF PostMessages, Answered
  <2>2. CASE Frame
    BY <2>2 DEF Frame, Answered
  <2>3. CASE Put
    BY <2>3 DEF Put, Answered
  <2>4. CASE AutoReply
    BY <2>4 DEF AutoReply, Answered
  <2>5. CASE Done
    BY <2>5 DEF Done, Answered
  <2>6. CASE UNCHANGED vars
    BY <2>6 DEF vars, Answered
  <2> QED
    BY <2>1, <2>2, <2>3, <2>4, <2>5, <2>6 DEF Next
<1> QED
  BY <1>1, <1>2, PTL DEF Spec

-----------------------------------------------------------------------------
(* The pipeline of the send endpoint.                                       *)

LEMMA Limits ==
    /\ \A length \in Int : FitsLifecycle(length) <=> length \in 1 .. MaxTextLength
    /\ \A delay \in Int : delay >= 0 /\ delay <= MaxDelay => delay \in 0 .. MaxDelay
<1>1. \A n, x \in Int : (x > 0 /\ x <= n <=> x \in 1 .. n) /\ (x >= 0 /\ x <= n => x \in 0 .. n)
  OBVIOUS
<1>2. MaxTextLength \in Int /\ MaxDelay \in Int
  BY DEF MaxTextLength, MaxDelay
<1> QED
  BY <1>1, <1>2 DEF FitsLifecycle

\* A set of steps that holds k and nothing below it starts at k.
LEMMA FirstStep ==
    ASSUME NEW F \in SUBSET (0 .. 6), NEW k \in F, \A j \in F : k <= j
    PROVE  Min(F) = k
<1>1. \A x \in F : (\A y \in F : x <= y) => x = k
  OBVIOUS
<1> QED
  BY <1>1 DEF Min

\* The object of the path is found by its id only, and always by its id.
LEMMA AddressedById ==
    ASSUME NEW r
    PROVE  /\ Addressed(r) <=> r.id \in Ours
           /\ r.id \in Ours => LookUp(r.id) = r.id
<1>1. CASE r.id \in Ours
  BY <1>1, AbsentAssumption DEF Addressed, LookUp
<1>2. CASE r.id \in Displays \ Ours
  <2>1. \E i \in Ours : Display[i] = r.id
    BY <1>2 DEF Displays
  <2>2. LookUp(r.id) \in Ours
    BY <1>2, <2>1 DEF LookUp
  <2> QED
    BY <1>2, <2>2 DEF Addressed
<1>3. CASE r.id \notin Ours /\ r.id \notin Displays
  BY <1>3 DEF Addressed, LookUp
<1> QED
  BY <1>1, <1>2, <1>3

\* Reading a message that is none of the business's fails whatever its wamid.
LEMMA ReadFails ==
    ASSUME NEW r, r.id \in Ours, r.type = "none", r.status = "read"
    PROVE  MarkAsRead(r) = IF FailsStep(r, 5) THEN Fail("invalid_param") ELSE Served(r)
<1>1. FailsStep(r, 5) <=> \A i \in Wamids : r.wamid = i => Received[i] # r.id
  BY DEF FailsStep, IsSend
<1>2. (\A i \in Wamids : r.wamid = i => Received[i] # r.id)
         <=> r.wamid \notin Wamids \/ Received[r.wamid] # r.id
  OBVIOUS
<1> QED
  BY <1>1, <1>2, AddressedById DEF MarkAsRead, Wamids, Served, IsSend

\* A template differs from the text that it passes for in nothing else.
LEMMA AsTextFields ==
    ASSUME NEW r \in SendRequests
    PROVE  LET q == AsText(r)
           IN  /\ q.force = r.force /\ q.id = r.id /\ q.auth = r.auth /\ q.json = r.json
               /\ q.product = r.product /\ q.status = r.status /\ q.wamid = r.wamid /\ q.to = r.to
               /\ q.type = IF r.type = "template" THEN "text" ELSE r.type
               /\ q.text = IF r.type = "template" THEN 1 ELSE r.text
BY DEF AsText, SendRequests

\* The tests of validate() in the order of the documented steps.
LEMMA Pipeline ==
    ASSUME NEW s \in SendRequests
    PROVE  LET r == AsText(s)
           IN  Validate(s) =
                 IF FailsStep(r, 0) THEN StepError(r, 0)
                 ELSE IF FailsStep(r, 1) THEN StepError(r, 1)
                 ELSE IF FailsStep(r, 2) THEN StepError(r, 2)
                 ELSE IF FailsStep(r, 3) THEN StepError(r, 3)
                 ELSE IF FailsStep(r, 4) THEN StepError(r, 4)
                 ELSE IF FailsStep(r, 5) THEN StepError(r, 5)
                 ELSE IF FailsStep(r, 6) THEN StepError(r, 6)
                 ELSE Served(r)
<1> DEFINE r == AsText(s)
<1>0. /\ r.force = s.force /\ r.id = s.id /\ r.auth = s.auth /\ r.json = s.json
      /\ r.product = s.product /\ r.status = s.status /\ r.wamid = s.wamid /\ r.to = s.to
      /\ r.type = IF s.type = "template" THEN "text" ELSE s.type
      /\ r.text = IF s.type = "template" THEN 1 ELSE s.text
  BY AsTextFields
<1> HIDE DEF r
<1>1. /\ FailsStep(r, 0) <=> s.force # 0
      /\ FailsStep(r, 1) <=> s.id \notin Ours
      /\ FailsStep(r, 2) <=> s.auth # s.id
      /\ FailsStep(r, 3) <=> s.json # "object" \/ s.product # "whatsapp"
      /\ FailsStep(r, 4) <=> ~IsSend(s) /\ s.status # "read"
      /\ FailsStep(r, 6) <=> IsSend(s) /\ s.to \notin Customers
      /\ IsSend(r) <=> IsSend(s)
  BY <1>0 DEF FailsStep, IsSend
<1>2. IsSend(s) => (FailsStep(r, 5) <=>
          \/ s.type \notin {"text", "template"}
          \/ s.type = "text" /\ s.text \notin 1 .. MaxTextLength
          \/ s.to \in {Absent, Malformed})
  <2>1. s.text \in {0, 1, MaxTextLength, MaxTextLength + 1}
    BY DEF SendRequests
  <2>2. /\ FitsLifecycle(s.text) <=> s.text \in 1 .. MaxTextLength
        /\ FitsLifecycle(1)
    <3>1. s.text \in Int
      BY <2>1 DEF MaxTextLength
    <3>2. FitsLifecycle(1)
      BY DEF FitsLifecycle, MaxTextLength
    <3> QED
      BY <3>1, <3>2, Limits
  <2>3. IsSend(s) => (FailsStep(r, 5) <=> r.type # "text" \/ ~FitsLifecycle(r.text)
                                            \/ r.to \in {Absent, Malformed})
    BY <1>1 DEF FailsStep
  <2>4. CASE s.type = "template"
    BY <1>0, <2>2, <2>3, <2>4
  <2>5. CASE s.type # "template"
    BY <1>0, <2>2, <2>3, <2>5
  <2> QED
    BY <2>4, <2>5
<1>3. /\ StepError(r, 0) = Error(ForcedKind(s.force), TRUE)
      /\ StepError(r, 1) = Fail("unknown_object")
      /\ StepError(r, 2) = Fail("invalid_token")
      /\ StepError(r, 3) = Fail("invalid_param")
      /\ StepError(r, 4) = Fail("invalid_param")
      /\ StepError(r, 5) = Fail("invalid_param")
      /\ StepError(r, 6) = Fail("undeliverable")
  BY <1>0 DEF StepError
<1>4. Fail("not_implemented") = Fail("invalid_param")
  BY DEF Fail, Error, Code
<1>5. Served(r) = IF IsSend(s) THEN [kind |-> "send", business |-> s.id, to |-> s.to]
                  ELSE [kind |-> "read", business |-> s.id, wamid |-> s.wamid]
  BY <1>0, <1>1 DEF Served
<1>6. Addressed(s) <=> s.id \in Ours
  BY AddressedById
<1>7. ASSUME ~FailsStep(r, 0), ~FailsStep(r, 1)
      PROVE  /\ s.id \in Ours /\ LookUp(s.id) = s.id
             /\ Validate(s) = IF FailsStep(r, 2) THEN Fail("invalid_token") ELSE Body(s)
  BY <1>1, <1>6, <1>7, AddressedById DEF Validate
<1>8. CASE FailsStep(r, 0) \/ FailsStep(r, 1)
  BY <1>1, <1>3, <1>6, <1>8 DEF Validate, r
<1>9. CASE ~FailsStep(r, 0) /\ ~FailsStep(r, 1) /\ FailsStep(r, 2)
  BY <1>3, <1>7, <1>9 DEF r
<1>10. CASE ~FailsStep(r, 0) /\ ~FailsStep(r, 1) /\ ~FailsStep(r, 2) /\ FailsStep(r, 3)
  BY <1>1, <1>3, <1>7, <1>10 DEF Body, r
<1>11. CASE ~FailsStep(r, 0) /\ ~FailsStep(r, 1) /\ ~FailsStep(r, 2) /\ ~FailsStep(r, 3) /\ ~IsSend(s)
  <2>1. s.type = "none" /\ r.type = "none" /\ ~FailsStep(r, 6)
    BY <1>0, <1>1, <1>11 DEF IsSend
  <2>2. CASE s.status = "read"
    <3>1. Validate(s) = MarkAsRead(s)
      BY <1>1, <1>7, <1>11, <2>1, <2>2 DEF Body
    <3>2. MarkAsRead(s) = MarkAsRead(r)
      BY <1>0 DEF MarkAsRead
    <3>3. MarkAsRead(r) = IF FailsStep(r, 5) THEN Fail("invalid_param") ELSE Served(r)
      BY <1>0, <1>7, <1>11, <2>1, <2>2, ReadFails
    <3> QED
      BY <1>1, <1>3, <1>11, <2>1, <2>2, <3>1, <3>2, <3>3 DEF r
  <2>3. CASE s.status # "read"
    <3>1. MarkAsRead(s) = Fail("invalid_param")
      BY <2>3 DEF MarkAsRead
    <3>2. Body(s) = Fail("invalid_param")
      BY <1>1, <1>11, <2>1, <3>1 DEF Body
    <3> QED
      BY <1>1, <1>3, <1>7, <1>11, <2>3, <3>2 DEF r
  <2> QED
    BY <2>2, <2>3
<1>12. CASE ~FailsStep(r, 0) /\ ~FailsStep(r, 1) /\ ~FailsStep(r, 2) /\ ~FailsStep(r, 3) /\ IsSend(s)
  <2>1. s.type # "none" /\ ~FailsStep(r, 4)
    BY <1>1, <1>12 DEF IsSend
  <2>2. Send(s) = IF s.to \in {Absent, Malformed} THEN Fail("invalid_param")
                         ELSE IF FailsStep(r, 6) THEN Fail("undeliverable")
                         ELSE Served(r)
    BY <1>1, <1>5, <1>7, <1>12 DEF Send
  <2>3. Body(s) = IF FailsStep(r, 5) THEN Fail("invalid_param")
                         ELSE IF FailsStep(r, 6) THEN Fail("undeliverable")
                         ELSE Served(r)
    BY <1>1, <1>2, <1>4, <1>12, <2>1, <2>2 DEF Body
  <2> QED
    BY <1>3, <1>7, <1>12, <2>1, <2>3 DEF r
<1> QED
  BY <1>8, <1>9, <1>10, <1>11, <1>12 DEF r

\* What nested tests answer with is the error of the first step that fails.
LEMMA FirstFailure ==
    ASSUME NEW r, NEW a,
           a = IF FailsStep(r, 0) THEN StepError(r, 0)
               ELSE IF FailsStep(r, 1) THEN StepError(r, 1)
               ELSE IF FailsStep(r, 2) THEN StepError(r, 2)
               ELSE IF FailsStep(r, 3) THEN StepError(r, 3)
               ELSE IF FailsStep(r, 4) THEN StepError(r, 4)
               ELSE IF FailsStep(r, 5) THEN StepError(r, 5)
               ELSE IF FailsStep(r, 6) THEN StepError(r, 6)
               ELSE Served(r)
    PROVE  a = Documented(r)
<1> DEFINE F == {k \in 0 .. 6 : FailsStep(r, k)}
           P(k) == FailsStep(r, k)
<1>1. Documented(r) = IF F = {} THEN Served(r) ELSE StepError(r, Min(F))
  BY DEF Documented
<1>2. \A k \in 0 .. 6 : k \in F <=> P(k)
  OBVIOUS
<1>3. a = IF P(0) THEN StepError(r, 0)
          ELSE IF P(1) THEN StepError(r, 1)
          ELSE IF P(2) THEN StepError(r, 2)
          ELSE IF P(3) THEN StepError(r, 3)
          ELSE IF P(4) THEN StepError(r, 4)
          ELSE IF P(5) THEN StepError(r, 5)
          ELSE IF P(6) THEN StepError(r, 6)
          ELSE Served(r)
  OBVIOUS
<1> HIDE DEF P
<1>4. ASSUME NEW k \in 0 .. 6, P(k), \A j \in 0 .. 6 : j < k => ~P(j)
      PROVE  F # {} /\ Min(F) = k
  <2>1. F \in SUBSET (0 .. 6) /\ k \in F
    BY <1>2, <1>4
  <2>2. \A j \in F : k <= j
    BY <1>2, <1>4
  <2> HIDE DEF F
  <2> QED
    BY <2>1, <2>2, FirstStep
<1> HIDE DEF F
<1>5. CASE \E k \in 0 .. 6 : P(k)
  <2>1. \E k \in 0 .. 6 : P(k) /\ (\A j \in 0 .. 6 : j < k => ~P(j)) /\ a = StepError(r, k)
    <3>1. \A k \in 0 .. 6 : k = 0 \/ k = 1 \/ k = 2 \/ k = 3 \/ k = 4 \/ k = 5 \/ k = 6
      OBVIOUS
    <3> QED
      BY <1>3, <1>5, <3>1
  <2> QED
    BY <1>1, <1>4, <2>1
<1>6. CASE \A k \in 0 .. 6 : ~P(k)
  <2>1. F = {}
    BY <1>6 DEF F, P
  <2>2. ~P(0) /\ ~P(1) /\ ~P(2) /\ ~P(3) /\ ~P(4) /\ ~P(5) /\ ~P(6)
    BY <1>6
  <2> QED
    BY <1>1, <1>3, <2>1, <2>2
<1> QED
  BY <1>5, <1>6

\* Comdove sees the error of the first documented step that its request fails,
\* whatever businesses, customers and messages there are; templates and bodies
\* that are no JSON depart from the document as the property says.
THEOREM PipelineOrderHolds == Spec => []PipelineOrder
<1>1. Answered => PipelineOrder
  <2> SUFFICES ASSUME Answered, source = "meta"
               PROVE  answer = IF request.json = "invalid" THEN Fail("invalid_param")
                               ELSE Documented(AsText(request))
    BY DEF PipelineOrder
  <2>1. request \in SendRequests /\ answer = Answer(request)
    BY DEF Answered
  <2>2. Validate(request) = Documented(AsText(request))
    BY <2>1, Pipeline, FirstFailure
  <2> QED
    BY <2>1, <2>2 DEF Answer
<1> QED
  BY <1>1, AnsweredHolds, PTL

-----------------------------------------------------------------------------
(* The frame parser and the replies.                                        *)

\* What the parser lets through, the schema and the lifecycle take.
THEOREM AcceptedInputFitsHolds == Spec => []AcceptedInputFits
<1>1. Answered => AcceptedInputFits
  <2> SUFFICES ASSUME Answered, source \in {"ws", "api"}, answer = "ok"
               PROVE  IF source = "ws" /\ request.type = "message.send"
                      THEN FitsLifecycle(request.body)
                      ELSE FitsSchema(request.mode, request.delay)
    BY DEF AcceptedInputFits
  <2>1. ASSUME NEW f \in Frames, ParseClientEvent(f) = "ok"
        PROVE  FieldsOk(f) /\ f.type \in {"message.send", "tile.autoreply"}
    BY <2>1 DEF ParseClientEvent, Frames
  <2>2. ASSUME NEW f \in Frames, FieldsOk(f), f.type = "tile.autoreply"
        PROVE  FitsSchema(f.mode, f.delay)
    <3>1. f.delay \in {-1, 0, 1, MaxDelay, MaxDelay + 1}
      BY DEF Frames
    <3>2. f.delay \in Int
      BY <3>1 DEF MaxDelay
    <3>3. AutoReplyOk(f)
      BY <2>2 DEF FieldsOk
    <3>4. f.mode \in {"manual", "echo", "keyword"} /\ f.delay >= 0 /\ f.delay <= MaxDelay
      BY <3>3 DEF AutoReplyOk, DelayOk
    <3>5. f.delay \in 0 .. MaxDelay
      BY <3>2, <3>4, Limits
    <3> QED
      BY <3>4, <3>5 DEF FitsSchema
  <2>3. ASSUME NEW f \in Frames, FieldsOk(f), f.type = "message.send"
        PROVE  FitsLifecycle(f.body)
    BY <2>3 DEF FieldsOk, BodyOk, FitsLifecycle, MaxBodyLength, MaxTextLength
  <2>4. CASE source = "ws"
    <3>1. request \in Frames /\ ParseClientEvent(request) = "ok"
      BY <2>4 DEF Answered
    <3> QED
      BY <2>1, <2>2, <2>3, <2>4, <3>1
  <2>5. CASE source = "api"
    <3>1. PICK f \in Frames, noDelay \in BOOLEAN :
             /\ request = [f EXCEPT !.delay = IF noDelay THEN 0 ELSE @]
             /\ answer = PutAutoReply(f, noDelay)
      BY <2>5 DEF Answered
    <3> DEFINE g == [f EXCEPT !.json = "object", !.type = "tile.autoreply",
                              !.delay = IF noDelay THEN 0 ELSE @,
                              !.whole = noDelay \/ @,
                              !.rules = IF @ = "none" THEN "good" ELSE @]
    <3>2. g \in Frames /\ g.type = "tile.autoreply" /\ g.mode = f.mode
          /\ g.delay = IF noDelay THEN 0 ELSE f.delay
      BY DEF Frames
    <3>3. ParseClientEvent(g) = "ok"
      BY <3>1 DEF PutAutoReply
    <3> HIDE DEF g
    <3>4. FitsSchema(g.mode, g.delay)
      BY <2>1, <2>2, <3>2, <3>3
    <3>5. request.mode = f.mode /\ request.delay = IF noDelay THEN 0 ELSE f.delay
      BY <3>1 DEF Frames
    <3> QED
      BY <2>5, <3>2, <3>4, <3>5
  <2> QED
    BY <2>4, <2>5
<1> QED
  BY <1>1, AnsweredHolds, PTL

\* What is said is the first rule that applies, or the message itself; and it is
\* said unless there is none or it does not fit.
THEOREM RepliesAsConfiguredHolds == Spec => []RepliesAsConfigured
<1>1. Answered => RepliesAsConfigured
  <2> SUFFICES ASSUME Answered, source = "timer" PROVE RepliesAsConfigured
    BY DEF RepliesAsConfigured
  <2>1. PICK c \in Configs, b \in Bodies :
           request = [config |-> c, body |-> b] /\ answer = Replied(c, b)
    BY DEF Answered
  <2> DEFINE Fits(i) == c.rules[i].keyword \in b.words
             firsts  == {i \in DOMAIN c.rules : Fits(i) /\ \A q \in 1 .. i - 1 : ~Fits(q)}
             due     == CASE c.mode = "manual"  -> {}
                          [] c.mode = "echo"    -> {[from |-> "body", length |-> b.length]}
                          [] c.mode = "keyword" ->
                                {[from |-> "rule", length |-> c.rules[i].reply] : i \in firsts}
             said    == {reply \in due : c.customer /\ reply.length \in 1 .. MaxTextLength}
             hits    == Hits(c.rules, b)
  <2>2. /\ c.mode = "manual" \/ c.mode = "echo" \/ c.mode = "keyword"
        /\ c.customer \in BOOLEAN
        /\ b.length \in {1, MaxTextLength, MaxTextLength + 1}
    BY DEF Configs, Bodies
  <2>3. /\ DOMAIN c.rules \subseteq 1 .. 2
        /\ 2 \in DOMAIN c.rules => 1 \in DOMAIN c.rules
        /\ \A i \in DOMAIN c.rules : c.rules[i].reply \in {1, MaxTextLength + 1}
    <3>1. c.rules = <<>> \/ (\E x \in Rules : c.rules = <<x>>) \/ c.rules \in Rules \X Rules
      BY DEF Configs
    <3>2. CASE c.rules = <<>>
      BY <3>2
    <3>3. CASE \E x \in Rules : c.rules = <<x>>
      BY <3>3 DEF Rules
    <3>4. CASE c.rules \in Rules \X Rules
      <4>1. PICK x \in Rules, y \in Rules : c.rules = <<x, y>>
        BY <3>4
      <4> QED
        BY <4>1 DEF Rules
    <3> QED
      BY <3>1, <3>2, <3>3, <3>4
  <2>4. \A i \in 1 .. 2 : i = 1 \/ i = 2
    OBVIOUS
  <2>5. ASSUME hits # {} PROVE firsts = {Min(hits)}
    <3>1. hits \subseteq {1, 2} /\ \A i \in DOMAIN c.rules : i \in hits <=> Fits(i)
      BY <2>3, <2>4 DEF Hits
    <3>2. \E x \in hits : \A y \in hits : x <= y
      <4> HIDE DEF hits
      <4> QED
        BY <2>5, <3>1
    <3>3. Min(hits) \in hits /\ \A y \in hits : Min(hits) <= y
      <4> HIDE DEF hits
      <4> QED
        BY <3>2 DEF Min
    <3>4. hits \subseteq DOMAIN c.rules
      BY DEF Hits
    <3>5. Min(hits) = 1 \/ Min(hits) = 2
      BY <3>1, <3>3
    <3>6. CASE Min(hits) = 1
      <4>1. Fits(1) /\ 1 \in DOMAIN c.rules
        BY <3>1, <3>3, <3>4, <3>6
      <4>2. \A i \in firsts : i = 1
        <5>1. \A i \in firsts : i \in {1, 2} /\ (1 \in 1 .. i - 1 => ~Fits(1))
          BY <2>3, <2>4
        <5>2. 1 \in 1 .. 2 - 1
          OBVIOUS
        <5> QED
          BY <4>1, <5>1, <5>2
      <4>3. 1 \in firsts
        BY <4>1
      <4> QED
        BY <3>6, <4>2, <4>3
    <3>7. CASE Min(hits) = 2
      <4>1. Fits(2) /\ 2 \in DOMAIN c.rules /\ 1 \in DOMAIN c.rules /\ 1 \notin hits
        BY <2>3, <3>1, <3>3, <3>4, <3>7
      <4>2. ~Fits(1)
        BY <3>1, <4>1
      <4>3. \A i \in firsts : i = 2
        BY <2>3, <2>4, <4>2
      <4>4. \A q \in 1 .. 2 - 1 : q = 1
        OBVIOUS
      <4>5. 2 \in firsts
        BY <4>1, <4>2, <4>4
      <4> QED
        BY <3>7, <4>3, <4>5
    <3> QED
      BY <3>5, <3>6, <3>7
  <2>6. hits = {} => firsts = {}
    BY DEF Hits
  <2> DEFINE reply == ComputeReply(c, b)
  <2>7. answer = IF FitsLifecycle(reply.length) THEN reply ELSE Silence
    BY <2>1 DEF Replied
  <2>8. ~FitsLifecycle(Silence.length)
    BY DEF Silence, FitsLifecycle
  <2>9. ASSUME c.customer, c.mode # "manual"
        PROVE  \/ due = {} /\ reply = Silence
               \/ due = {reply} /\ reply.length \in {1, MaxTextLength, MaxTextLength + 1}
    <3>1. CASE c.mode = "echo"
      BY <2>2, <2>9, <3>1 DEF ComputeReply, PickReply
    <3>2. CASE c.mode = "keyword"
      <4>1. due = {[from |-> "rule", length |-> c.rules[i].reply] : i \in firsts}
        BY <3>2
      <4>2. CASE hits = {}
        BY <2>6, <2>9, <3>2, <4>1, <4>2 DEF ComputeReply, PickReply
      <4>3. CASE hits # {}
        <5>1. reply = [from |-> "rule", length |-> c.rules[Min(hits)].reply]
          BY <2>9, <3>2, <4>3 DEF ComputeReply, PickReply
        <5>2. firsts = {Min(hits)} /\ Min(hits) \in DOMAIN c.rules
          BY <2>5, <4>3
        <5> HIDE DEF firsts, hits, reply, due
        <5> QED
          BY <2>3, <4>1, <5>1, <5>2
      <4> QED
        BY <4>2, <4>3
    <3> QED
      BY <2>2, <2>9, <3>1, <3>2
  <2>10. answer \in said \/ (said = {} /\ answer = Silence)
    <3>1. CASE ~c.customer \/ c.mode = "manual"
      <4>1. reply = Silence
        BY <3>1 DEF ComputeReply
      <4>2. said = {}
        BY <3>1
      <4> QED
        BY <2>7, <4>1, <4>2
    <3> HIDE DEF due, reply
    <3>2. CASE c.customer /\ due = {} /\ reply = Silence
      BY <2>7, <2>8, <3>2
    <3>3. CASE c.customer /\ due = {reply} /\ reply.length \in {1, MaxTextLength, MaxTextLength + 1}
      <4>1. reply.length \in Int
        BY <3>3 DEF MaxTextLength
      <4>2. FitsLifecycle(reply.length) <=> reply.length \in 1 .. MaxTextLength
        BY <4>1, Limits
      <4> QED
        BY <2>7, <3>3, <4>2
    <3> QED
      BY <2>9, <3>1, <3>2, <3>3
  <2>11. request.config = c /\ request.body = b
    BY <2>1
  <2> QED
    BY <2>10, <2>11 DEF RepliesAsConfigured, due
<1> QED
  BY <1>1, AnsweredHolds, PTL

===============================================================================
