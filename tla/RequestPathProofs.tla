------------------------- MODULE RequestPathProofs -------------------------
(***************************************************************************)
(* Proofs about RequestPath: what the chain of middleware keeps to for     *)
(* every set of routes.                                                    *)
(*                                                                         *)
(* The inductive invariant says, layer by layer, what has been put on the  *)
(* response and in the logs by the time the request is in that layer.      *)
(***************************************************************************)
EXTENDS RequestPath, TLAPS

\* The process has no request.
Between == {"boot", "refused", "idle"}

\* Where nothing has been answered yet.
Inward == Between \cup {"recover", "id", "log", "gzip", "mux", "auth", "handler"}

Fresh ==
  pc \in Inward => /\ ~Sent(wire) /\ ~extra /\ ~applied /\ panicked = "no"
                   /\ failure = NoError /\ access = {} /\ errlog = {}
                   /\ wire.body = {}

Refusal == pc = "refused" => ~Loads(file, env)

\* The ID is in the header map before the status can be sent.
Identified ==
  /\ pc \notin Between \cup {"recover", "id"} => "id" \in hdr
  /\ Sent(wire) => "id" \in wire.hdr
  /\ Done => Sent(wire)

\* The recorder has the status that was sent or that will be implied.
Recorded ==
  /\ pc \notin Between \cup {"recover", "id", "log"} /\ ~Sent(wire) => recorder = 200
  /\ Sent(wire) /\ panicked = "no" => recorder = wire.status
  /\ pc \in {"recovered", "done"} /\ panicked = "no" => access = {recorder}
  /\ pc \notin {"recovered", "done"} => access = {}

\* Only recover answers a second time; until it does, a panic that came before
\* the answer leaves the response alone, but for the compressor.
Unwinding ==
  /\ extra => Done
  /\ panicked # "no" => pc \in {"gzclose", "logline", "recovered", "done"}
  /\ panicked = "late" => Sent(wire)
  /\ panicked = "early" /\ ~Done /\ (pc = "gzclose" \/ ~req.gzip) => ~Sent(wire)

Permitted ==
  /\ pc = "handler" /\ req.route = "upload" => Admitted
  /\ applied => Admitted /\ Sent(wire) /\ wire.status = 204

\* The error lines so far are those of the error and the panic so far.
Reported ==
  /\ failure # NoError => Sent(wire) /\ wire.status = MapError(failure)
  /\ "recover" \in errlog <=> Done /\ panicked # "no"
  /\ "service" \in errlog <=> "ServiceError" \in failure.wraps
  /\ "adapt" \in errlog <=> MapError(failure) >= 500
  /\ req.route = "upload" /\ pc \notin Inward /\ panicked = "no" /\ failure = NoError
       => Sent(wire) /\ wire.status \in {204, 401}

\* The label says whether there is a compressor.
Labelled ==
  /\ pc \in Between \cup {"recover", "id", "log", "gzip"} => "encoding" \notin hdr
  /\ req.route \notin {"docs", "static"} =>
       /\ pc \notin Between \cup {"recover", "id", "log", "gzip"} =>
            (req.gzip <=> "encoding" \in hdr)
       /\ Sent(wire) => (req.gzip <=> "encoding" \in wire.hdr)
       /\ ~Done \/ panicked = "no" =>
            wire.body \subseteq (IF req.gzip THEN {"gz"} ELSE {"plain"})

IInv == /\ TypeOK /\ Fresh /\ Refusal /\ Identified /\ AnsweredOnce
        /\ Unwinding /\ Recorded /\ Permitted /\ Reported /\ Labelled

USE RouteAssumption
-----------------------------------------------------------------------------
\* What an error can be.
LEMMA ErrorShape ==
  /\ NoError.wraps = {} /\ MapError(NoError) = 200
  /\ \A err \in UploadErrors :
       /\ err # NoError
       /\ MapError(err) \in {400, 404, 413, 500}
       /\ ServerFault(err) => "ServiceError" \in err.wraps
       /\ ServerFault(err) => MapError(err) >= 500 \/ "NotExist" \in err.wraps
       /\ ClientFault(err) => MapError(err) \in {400, 413}
<1>1. NoError.wraps = {} /\ MapError(NoError) = 200
  BY DEF NoError, MapError
<1>2. ASSUME NEW c \in {400, 413}
      PROVE  /\ APIError(c) # NoError /\ MapError(APIError(c)) = c
             /\ ClientFault(APIError(c))
  <2>1. APIError(c).wraps = {"APIError"} /\ APIError(c).code = c
    BY DEF APIError
  <2>2. APIError(c) # NoError
    BY <1>1, <2>1
  <2> QED
    BY <2>1, <2>2 DEF MapError, StatusCode, ClientFault
<1>3. ASSUME NEW links \in {{}, {"CSVParseError"}, {"StoreError"},
                           {"StoreError", "NotExist"}}
      PROVE  /\ ServiceError(links) # NoError
             /\ "ServiceError" \in ServiceError(links).wraps
             /\ MapError(ServiceError(links)) \in {400, 404, 500}
             /\ ClientFault(ServiceError(links)) => MapError(ServiceError(links)) = 400
             /\ ~ClientFault(ServiceError(links)) =>
                  \/ MapError(ServiceError(links)) = 500
                  \/ "NotExist" \in ServiceError(links).wraps
  <2>1. ServiceError(links).wraps = links \cup {"ServiceError"}
    BY DEF ServiceError
  <2>2. ServiceError(links) # NoError
    BY <1>1, <2>1
  <2> QED
    BY <2>1, <2>2 DEF MapError, ClientFault
<1> QED
  BY <1>1, <1>2, <1>3 DEF UploadErrors, ServerFault

\* What a handler can answer.
LEMMA AnswerShape ==
  ASSUME NEW route \in AllRoutes, NEW a \in Answers(route)
  PROVE  /\ a.code \in Status \cup {0} /\ a.set \subseteq {"type", "etag"}
         /\ a.del \subseteq {"encoding"}
         /\ a.err \in UploadErrors \cup {NoError}
         /\ a.code = 0 => a.body
         /\ a.err # NoError => a.code = MapError(a.err)
         /\ route \notin {"docs", "static"} => a.del = {}
         /\ route = "upload" /\ a.err = NoError => a.code = 204
<1> DEFINE Shaped(x) ==
             /\ x.code \in Status \cup {0} /\ x.set \subseteq {"type", "etag"}
             /\ x.del \subseteq {"encoding"}
             /\ x.err \in UploadErrors \cup {NoError}
             /\ x.code = 0 => x.body
             /\ x.err # NoError => x.code = MapError(x.err)
<1>2. ASSUME NEW err \in UploadErrors
      PROVE  /\ Shaped(Adapted(err)) /\ Adapted(err).err = err /\ Adapted(err).del = {}
  <2>1. MapError(err) \in {400, 404, 413, 500}
    BY ErrorShape
  <2>2. /\ Adapted(err).code = MapError(err) /\ Adapted(err).set = {"type"}
        /\ Adapted(err).del = {}
        /\ Adapted(err).err = err
    BY DEF Adapted, ErrorJSON, Answer
  <2> QED
    BY <2>1, <2>2 DEF Status
<1>3. Shaped(FileError)
  BY DEF FileError, Answer, Status
<1> HIDE DEF Shaped
<1>5. CASE route = "servers"
  <2>1. a \in {Answer(500, {"type"}, TRUE), Answer(304, {"etag"}, FALSE),
               Answer(200, {"etag", "type"}, TRUE), Adapted(APIError(400))}
    BY <1>5 DEF Answers, CacheableJSON
  <2>2. APIError(400) \in UploadErrors
    BY DEF UploadErrors
  <2>3. CASE a = Adapted(APIError(400))
    BY <1>2, <1>5, <2>2, <2>3 DEF Shaped
  <2>4. CASE a # Adapted(APIError(400))
    BY <1>5, <2>1, <2>4 DEF Answer, Status
  <2> QED
    BY <2>3, <2>4
<1>6. CASE route = "upload"
  <2>1. a = Answer(204, {}, FALSE) \/ \E err \in UploadErrors : a = Adapted(err)
    BY <1>6 DEF Answers
  <2>2. CASE a = Answer(204, {}, FALSE)
    BY <1>6, <2>2 DEF Answer, Status
  <2>3. ASSUME NEW err \in UploadErrors, a = Adapted(err)
        PROVE  Shaped(a) /\ a.del = {} /\ a.err # NoError
    BY <1>2, <2>3, ErrorShape
  <2> QED
    BY <1>6, <2>1, <2>2, <2>3 DEF Shaped
<1>7. CASE route \in {"healthz", "readyz", "other"}
  <2>1. a \in {Answer(200, {}, FALSE), Answer(503, {"type"}, TRUE),
               Answer(302, {"type"}, TRUE), Answer(404, {"type"}, TRUE),
               Answer(405, {"type"}, TRUE)}
    BY <1>7 DEF Answers, ErrorJSON
  <2> QED
    BY <1>7, <2>1 DEF Answer, Status
<1>8. CASE route \in {"docs", "static"}
  <2>1. a \in {Answer(0, {"type"}, TRUE), Answer(200, {"type"}, TRUE), FileError}
    BY <1>8 DEF Answers
  <2>2. CASE a = FileError
    BY <1>3, <1>8, <2>2 DEF Shaped
  <2>3. CASE a # FileError
    BY <1>8, <2>1, <2>3 DEF Answer, Status
  <2> QED
    BY <2>2, <2>3
<1> QED
  BY <1>5, <1>6, <1>7, <1>8 DEF AllRoutes
-----------------------------------------------------------------------------
\* The process comes up or is refused.
LEMMA BootStep == ASSUME IInv, Boot PROVE IInv'
<1> USE DEF Sent, IInv, Boot, Inward, Between, deployment, response,
           trail
<1>1. TypeOK'
  BY DEF TypeOK, HeaderName, Status
<1>2. Fresh' /\ Refusal' /\ Identified' /\ AnsweredOnce' /\ Unwinding' /\ Recorded'
  BY DEF Fresh, Refusal, Identified, AnsweredOnce, Unwinding, Recorded, Done
<1>3. Permitted' /\ Reported' /\ Labelled'
  BY DEF Fresh, Permitted, Admitted, cfg, Reported, Labelled, Done
<1> QED
  BY <1>1, <1>2, <1>3

\* Another deployment, when there is no request.
LEMMA RedeployStep == ASSUME IInv, Redeploy PROVE IInv'
<1> USE DEF Sent, IInv, Redeploy, Inward, Between, deployment, response,
           trail
<1>1. TypeOK'
  BY DEF TypeOK, HeaderName, Status
<1>2. Fresh' /\ Refusal' /\ Identified' /\ AnsweredOnce' /\ Unwinding' /\ Recorded'
  BY DEF Fresh, Refusal, Identified, AnsweredOnce, Unwinding, Recorded, Done
<1>3. Permitted' /\ Reported' /\ Labelled'
  BY DEF Fresh, Permitted, Admitted, cfg, Reported, Labelled, Done
<1> QED
  BY <1>1, <1>2, <1>3

\* A request arrives at a fresh response.
LEMMA ArriveStep == ASSUME IInv, Arrive PROVE IInv'
<1> USE DEF Sent, IInv, Arrive, Inward, Between, deployment, response,
           trail
<1>1. TypeOK'
  BY DEF TypeOK, HeaderName, Status
<1>2. Fresh' /\ Refusal' /\ Identified' /\ AnsweredOnce' /\ Unwinding' /\ Recorded'
  BY DEF Fresh, Refusal, Identified, AnsweredOnce, Unwinding, Recorded, Done
<1>3. Permitted' /\ Reported' /\ Labelled'
  BY DEF Fresh, Permitted, Admitted, cfg, Reported, Labelled, Done
<1> QED
  BY <1>1, <1>2, <1>3

\* The recover layer.
LEMMA RecoverStep == ASSUME IInv, Recover PROVE IInv'
<1> USE DEF Sent, IInv, Recover, Inward, Between, deployment, response,
           trail
<1>1. TypeOK'
  BY DEF TypeOK, HeaderName, Status
<1>2. Fresh' /\ Refusal' /\ Identified' /\ AnsweredOnce' /\ Unwinding' /\ Recorded'
  BY DEF Fresh, Refusal, Identified, AnsweredOnce, Unwinding, Recorded, Done
<1>3. Permitted' /\ Reported' /\ Labelled'
  BY DEF Fresh, Permitted, Admitted, cfg, Reported, Labelled, Done
<1> QED
  BY <1>1, <1>2, <1>3

\* The ID is put on the header map.
LEMMA IDStep == ASSUME IInv, RequestID PROVE IInv'
<1> USE DEF Sent, IInv, RequestID, Inward, Between, deployment, response,
           trail
<1>1. TypeOK'
  BY DEF TypeOK, HeaderName, Status
<1>2. Fresh' /\ Refusal' /\ Identified' /\ AnsweredOnce' /\ Unwinding' /\ Recorded'
  BY DEF Fresh, Refusal, Identified, AnsweredOnce, Unwinding, Recorded, Done
<1>3. Permitted' /\ Reported' /\ Labelled'
  BY DEF Fresh, Permitted, Admitted, cfg, Reported, Labelled, Done
<1> QED
  BY <1>1, <1>2, <1>3

\* The recorder starts at the implied status.
LEMMA LoggingStep == ASSUME IInv, Logging PROVE IInv'
<1> USE DEF Sent, IInv, Logging, Inward, Between, deployment, response,
           trail
<1>1. TypeOK'
  BY DEF TypeOK, HeaderName, Status
<1>2. Fresh' /\ Refusal' /\ Identified' /\ AnsweredOnce' /\ Unwinding' /\ Recorded'
  BY DEF Fresh, Refusal, Identified, AnsweredOnce, Unwinding, Recorded, Done
<1>3. Permitted' /\ Reported' /\ Labelled'
  BY DEF Fresh, Permitted, Admitted, cfg, Reported, Labelled, Done
<1> QED
  BY <1>1, <1>2, <1>3

\* The label is put on the header map.
LEMMA GzipStep == ASSUME IInv, Gzip PROVE IInv'
<1> USE DEF Sent, IInv, Gzip, Inward, Between, deployment, response,
           trail
<1>1. TypeOK'
  BY DEF TypeOK, HeaderName, Status
<1>2. Fresh' /\ Refusal' /\ Identified' /\ AnsweredOnce' /\ Unwinding' /\ Recorded'
  BY DEF Fresh, Refusal, Identified, AnsweredOnce, Unwinding, Recorded, Done
<1>3. Permitted' /\ Reported' /\ Labelled'
  BY DEF Fresh, Permitted, Admitted, cfg, Reported, Labelled, Done
<1> QED
  BY <1>1, <1>2, <1>3

\* An upload has to pass the token's check.
LEMMA MuxStep == ASSUME IInv, Mux PROVE IInv'
<1> USE DEF Sent, IInv, Mux, Inward, Between, deployment, response,
           trail
<1>1. TypeOK'
  BY DEF TypeOK, HeaderName, Status
<1>2. Fresh' /\ Refusal' /\ Identified' /\ AnsweredOnce' /\ Unwinding' /\ Recorded'
  BY DEF Fresh, Refusal, Identified, AnsweredOnce, Unwinding, Recorded, Done
<1>3. Permitted' /\ Reported' /\ Labelled'
  BY DEF Fresh, Permitted, Admitted, cfg, Reported, Labelled, Done
<1> QED
  BY <1>1, <1>2, <1>3

\* A wrong token is answered here and now.
LEMMA AuthStep == ASSUME IInv, Auth PROVE IInv'
<1> USE DEF Sent, IInv, Auth, Inward, Between, deployment, response,
           trail, Unauthorized, WriteHeader, SendStatus
<1>1. TypeOK'
  <2>1. CASE Admitted
    BY <2>1 DEF TypeOK
  <2>2. CASE ~Admitted
    <3>1. ~Sent(wire) /\ ~extra
      BY DEF Fresh
    <3>2. extra' = FALSE
      BY <2>2, <3>1 DEF TypeOK
    <3>3. hdr' \subseteq HeaderName
      BY <2>2 DEF TypeOK, HeaderName
    <3>4. wire' \in [status : Status \cup {0}, hdr : SUBSET HeaderName,
                     body : SUBSET {"plain", "gz"}]
      BY <2>2, <3>1, <3>3 DEF Status
    <3> QED
      BY <2>2, <3>2, <3>3, <3>4 DEF TypeOK, Status
  <2> QED
    BY <2>1, <2>2
<1>2. Fresh' /\ Refusal'
  BY DEF Fresh, Refusal
<1>3. Identified' /\ AnsweredOnce' /\ Unwinding'
  <2>1. Identified'
    BY DEF Identified, Done
  <2>2. AnsweredOnce' /\ Unwinding'
    BY DEF Fresh, AnsweredOnce, Unwinding, Done
  <2> QED
    BY <2>1, <2>2
<1>4. Recorded'
  BY DEF Fresh, Recorded, Done
<1>5. Permitted'
  BY DEF Fresh, Permitted, Admitted, cfg
<1>6. Reported'
  BY DEF Fresh, Reported, Done
<1>7. Labelled'
  BY DEF Fresh, Labelled, Done
<1> QED
  BY <1>1, <1>2, <1>3, <1>4, <1>5, <1>6, <1>7

\* The handler answers, in one of the ways its route has.
LEMMA HandlerStep == ASSUME IInv, Handler PROVE IInv'
<1>1. PICK a \in Answers(req.route) : Respond(a)
  BY DEF Handler
<1>2. /\ req \in Request /\ req.route \in AllRoutes
      /\ pc = "handler" /\ ~Sent(wire) /\ ~extra /\ panicked = "no" /\ errlog = {}
      /\ failure = NoError /\ wire.body = {} /\ recorder = 200 /\ access = {}
      /\ hdr \in SUBSET HeaderName /\ "id" \in hdr /\ wire \in [status : Status \cup {0},
           hdr : SUBSET HeaderName, body : SUBSET {"plain", "gz"}]
      /\ UNCHANGED <<file, env, req, panicked, access>>
  BY DEF IInv, TypeOK, Request, Handler, Fresh, Inward, Between, Identified, Recorded,
         deployment
<1>3. /\ a.code \in Status \cup {0} /\ a.set \subseteq {"type", "etag"}
      /\ a.del \subseteq {"encoding"} /\ a.err \in UploadErrors \cup {NoError}
      /\ a.code = 0 => a.body
      /\ a.err # NoError => a.code = MapError(a.err)
      /\ req.route \notin {"docs", "static"} => a.del = {}
      /\ req.route = "upload" /\ a.err = NoError => a.code = 204
  BY <1>2, AnswerShape
<1>4. /\ hdr' = (hdr \cup a.set) \ a.del
      /\ pc' = (IF a.body THEN "body" ELSE "gzclose")
      /\ failure' = a.err
      /\ errlog' = errlog \cup DecoratorLogs(a.err) \cup AdaptLogs(a.err)
      /\ applied' = (req.route = "upload" /\ a.err = NoError)
      /\ IF a.code = 0 THEN UNCHANGED <<recorder, extra, wire>>
                       ELSE WriteHeader(a.code, hdr')
  BY <1>1 DEF Respond
<1>5. /\ hdr' \in SUBSET HeaderName /\ "id" \in hdr'
      /\ pc' \in {"body", "gzclose"}
      /\ "recover" \notin errlog'
      /\ "service" \in errlog' <=> "ServiceError" \in failure'.wraps
      /\ "adapt" \in errlog' <=> MapError(failure') >= 500
      /\ errlog' \subseteq {"service", "adapt"}
  <2>1. hdr' \in SUBSET HeaderName /\ "id" \in hdr'
    <3>1. hdr' = (hdr \cup a.set) \ a.del
      BY <1>4
    <3>2. /\ hdr \subseteq HeaderName /\ "id" \in hdr
          /\ a.set \subseteq {"type", "etag"} /\ a.del \subseteq {"encoding"}
      BY <1>2, <1>3
    <3> QED
      BY <3>1, <3>2 DEF HeaderName
  <2>2. pc' \in {"body", "gzclose"}
    BY <1>4
  <2>3. errlog' = DecoratorLogs(failure') \cup AdaptLogs(failure')
    BY <1>2, <1>4
  <2> QED
    BY <2>1, <2>2, <2>3 DEF DecoratorLogs, AdaptLogs
<1>6. applied' = TRUE \/ applied' = FALSE
  <2>1. (req.route = "upload" /\ a.err = NoError) = TRUE
        \/ (req.route = "upload" /\ a.err = NoError) = FALSE
    BY Zenon
  <2> QED
    BY <1>4, <2>1, Zenon
<1>7. applied' => req.route = "upload" /\ a.err = NoError
  BY <1>4, Zenon
<1>8. /\ a.code = 0 => wire' = wire /\ recorder' = 200 /\ ~extra'
      /\ a.code # 0 => /\ wire' = [status |-> a.code, hdr |-> hdr', body |-> {}]
                       /\ recorder' = a.code /\ extra' = FALSE
  BY <1>2, <1>4 DEF WriteHeader, SendStatus
<1>9. TypeOK'
  <2>1. wire' \in [status : Status \cup {0}, hdr : SUBSET HeaderName,
                   body : SUBSET {"plain", "gz"}]
    BY <1>2, <1>3, <1>5, <1>8
  <2>2. recorder' \in Status /\ failure' \in UploadErrors \cup {NoError}
    BY <1>3, <1>4, <1>8 DEF Status
  <2>3. extra' = FALSE
    BY <1>2, <1>4, <1>8 DEF IInv, TypeOK
  <2> QED
    BY <1>2, <1>5, <1>6, <2>1, <2>2, <2>3 DEF IInv, TypeOK
<1>10. Fresh' /\ Refusal' /\ AnsweredOnce' /\ Unwinding'
  BY <1>2, <1>5, <1>8 DEF Fresh, Refusal, Inward, Between, AnsweredOnce, Unwinding, Done
<1>11. Identified' /\ Recorded'
  BY <1>2, <1>3, <1>5, <1>8 DEF Identified, Recorded, Between, Done, Sent
<1>12. Permitted'
  <2>1. applied' => Admitted /\ a.code = 204
    BY <1>2, <1>3, <1>7 DEF IInv, Permitted
  <2>2. Admitted' <=> Admitted
    BY <1>2 DEF Admitted, cfg
  <2> QED
    BY <1>5, <1>8, <2>1, <2>2 DEF Permitted, Sent
<1>13. Reported'
  <2>1. failure' # NoError => Sent(wire)' /\ wire'.status = MapError(failure')
    BY <1>3, <1>4, <1>8, ErrorShape DEF Sent
  <2>2. req.route = "upload" /\ failure' = NoError => Sent(wire)' /\ wire'.status = 204
    BY <1>3, <1>4, <1>8 DEF Sent
  <2> QED
    BY <1>2, <1>5, <2>1, <2>2 DEF Reported, Done
<1>14. Labelled'
  <2>1. req.route \notin {"docs", "static"} =>
          (req.gzip <=> "encoding" \in hdr) /\ ("encoding" \in hdr' <=> "encoding" \in hdr)
    BY <1>2, <1>3, <1>4 DEF IInv, Labelled, Between
  <2>2. wire'.body = {} /\ (Sent(wire)' => wire'.hdr = hdr')
    BY <1>2, <1>8 DEF Sent
  <2> QED
    BY <1>2, <1>5, <2>1, <2>2 DEF Labelled, Between, Done
<1> QED
  BY <1>9, <1>10, <1>11, <1>12, <1>13, <1>14 DEF IInv

\* The body goes out, and with it the status if nobody sent it.
LEMMA BodyStep == ASSUME IInv, Body PROVE IInv'
<1> USE DEF Sent, IInv, Body, Inward, Between, deployment, response,
           trail, SendStatus, SendBody
<1>1. TypeOK'
  BY DEF TypeOK, HeaderName, Status
<1>2. Fresh' /\ Refusal'
  BY DEF Fresh, Refusal
<1>3. Identified' /\ AnsweredOnce' /\ Unwinding'
  BY DEF Fresh, Identified, AnsweredOnce, Unwinding, Done
<1>4. Recorded'
  BY DEF Fresh, Recorded, Done
<1>5. Permitted'
  BY DEF Fresh, Permitted, Admitted, cfg
<1>6. Reported'
  BY DEF Fresh, Reported, Done
<1>7. Labelled'
  BY DEF Fresh, Labelled, Done
<1> QED
  BY <1>1, <1>2, <1>3, <1>4, <1>5, <1>6, <1>7

\* A panic leaves everything to the deferred calls.
LEMMA PanicStep == ASSUME IInv, Panic PROVE IInv'
<1> USE DEF Sent, IInv, Panic, Inward, Between, deployment, response,
           trail
<1>1. TypeOK'
  BY DEF TypeOK, HeaderName, Status
<1>2. Fresh' /\ Refusal' /\ Identified' /\ AnsweredOnce' /\ Unwinding' /\ Recorded'
  BY DEF Fresh, Refusal, Identified, AnsweredOnce, Unwinding, Recorded, Done
<1>3. Permitted' /\ Reported' /\ Labelled'
  BY DEF Fresh, Permitted, Admitted, cfg, Reported, Labelled, Done
<1> QED
  BY <1>1, <1>2, <1>3

\* The compressor's last bytes.
LEMMA CloseStep == ASSUME IInv, GzipClose PROVE IInv'
<1> USE DEF Sent, IInv, GzipClose, Inward, Between, deployment, response,
           trail, SendStatus, SendBody
<1>1. TypeOK'
  BY DEF TypeOK, HeaderName, Status
<1>2. Fresh' /\ Refusal'
  BY DEF Fresh, Refusal
<1>3. Identified' /\ AnsweredOnce' /\ Unwinding'
  BY DEF Fresh, Identified, AnsweredOnce, Unwinding, Done
<1>4. Recorded'
  BY DEF Fresh, Recorded, Done
<1>5. Permitted'
  BY DEF Fresh, Permitted, Admitted, cfg
<1>6. Reported'
  BY DEF Fresh, Reported, Done
<1>7. Labelled'
  BY DEF Fresh, Labelled, Done
<1> QED
  BY <1>1, <1>2, <1>3, <1>4, <1>5, <1>6, <1>7

\* The access-log line.
LEMMA LogStep == ASSUME IInv, LogLine PROVE IInv'
<1> USE DEF Sent, IInv, LogLine, Inward, Between, deployment, response,
           trail
<1>1. TypeOK'
  BY DEF TypeOK, HeaderName, Status
<1>2. Fresh' /\ Refusal' /\ Identified' /\ AnsweredOnce' /\ Unwinding' /\ Recorded'
  BY DEF Fresh, Refusal, Identified, AnsweredOnce, Unwinding, Recorded, Done
<1>3. Permitted' /\ Reported' /\ Labelled'
  BY DEF Fresh, Permitted, Admitted, cfg, Reported, Labelled, Done
<1> QED
  BY <1>1, <1>2, <1>3

\* The recover layer's answer, or the end of the response.
LEMMA RecoveredStep == ASSUME IInv, Recovered PROVE IInv'
<1> DEFINE Wire == [status : Status \cup {0}, hdr : SUBSET HeaderName,
                    body : SUBSET {"plain", "gz"}]
<1>1. wire \in Wire /\ hdr \in SUBSET HeaderName /\ "id" \in hdr
  BY DEF IInv, TypeOK, Identified, Recovered, Between
<1>2. ASSUME NEW code \in {200, 500}, NEW h \in SUBSET HeaderName
      PROVE  /\ SendStatus(wire, code, h) \in Wire
             /\ SendStatus(wire, code, h).status =
                  (IF Sent(wire) THEN wire.status ELSE code)
             /\ SendStatus(wire, code, h).hdr = (IF Sent(wire) THEN wire.hdr ELSE h)
             /\ SendStatus(wire, code, h).body = (IF Sent(wire) THEN wire.body ELSE {})
  BY <1>1, <1>2 DEF SendStatus, Status
<1>3. CASE panicked = "no"
  <2> USE DEF IInv, Recovered
  <2>1. wire' = SendStatus(wire, 200, hdr)
        /\ UNCHANGED <<file, env, req, hdr, recorder, extra, panicked, applied,
                       failure, access, errlog>>
        /\ pc' = "done"
    BY <1>3 DEF deployment
  <2>2. TypeOK'
    BY <1>1, <1>2, <2>1 DEF TypeOK
  <2>3. Fresh' /\ Refusal' /\ AnsweredOnce' /\ Unwinding'
    BY <1>3, <2>1 DEF Fresh, Refusal, Inward, Between, AnsweredOnce, Unwinding, Done
  <2>4. Identified' /\ Sent(wire)'
    BY <1>1, <1>2, <2>1 DEF Identified, Between, Done, Sent
  <2>5. Recorded'
    BY <1>1, <1>2, <1>3, <2>1 DEF Recorded, Between, Sent
  <2>6. Permitted'
    BY <1>1, <1>2, <2>1 DEF Permitted, Sent, Admitted, cfg
  <2>7. Reported'
    BY <1>1, <1>2, <1>3, <2>1 DEF Reported, Sent, Done, Inward, Between
  <2>8. Labelled'
    BY <1>1, <1>2, <1>3, <2>1 DEF Labelled, Sent, Done, Between
  <2> QED
    BY <2>2, <2>3, <2>4, <2>5, <2>6, <2>7, <2>8
<1>4. CASE panicked # "no"
  <2> USE DEF IInv, Recovered
  <2> DEFINE x == SendStatus(wire, 500, hdr')
  <2>1. /\ hdr' = hdr \cup {"type"} /\ hdr' \in SUBSET HeaderName
        /\ wire' = SendBody(x, hdr', "plain")
        /\ errlog' = errlog \cup {"recover"}
        /\ UNCHANGED <<file, env, req, recorder, panicked, applied, failure, access>>
        /\ pc' = "done"
    BY <1>1, <1>4 DEF deployment, HeaderName
  <2>2. /\ x \in Wire /\ Sent(x)
        /\ x.status = (IF Sent(wire) THEN wire.status ELSE 500)
        /\ x.hdr = (IF Sent(wire) THEN wire.hdr ELSE hdr')
        /\ ~Sent(wire) => x.body = {}
    BY <1>2, <2>1 DEF Sent
  <2> HIDE DEF x
  <2>3. /\ wire' \in Wire /\ Sent(wire)'
        /\ wire'.status = (IF Sent(wire) THEN wire.status ELSE 500)
        /\ wire'.hdr = (IF Sent(wire) THEN wire.hdr ELSE hdr')
        /\ ~Sent(wire) => wire'.body = {"plain"}
    <3>1. SendStatus(x, 200, hdr') = x
      BY <2>2 DEF SendStatus
    <3>2. wire' = IF x.status \in {204, 304} THEN x
                  ELSE [x EXCEPT !.body = @ \cup {"plain"}]
      <4> HIDE DEF IInv, Recovered
      <4> QED
        BY <2>1, <3>1 DEF SendBody
    <3> QED
      BY <2>2, <3>2 DEF Sent
  <2>4. extra' = TRUE \/ extra' = FALSE
    <3> HIDE DEF Sent
    <3>1. (extra \/ Sent(wire)) = TRUE \/ (extra \/ Sent(wire)) = FALSE
      BY Zenon
    <3>2. extra' = (extra \/ Sent(wire))
      BY <1>4
    <3> QED
      BY <3>1, <3>2, Zenon
  <2>5. TypeOK'
    <3>1. errlog' \subseteq {"service", "adapt", "recover"}
      BY <2>1 DEF TypeOK
    <3> HIDE DEF Recovered
    <3> QED
      BY <2>1, <2>3, <2>4, <3>1 DEF TypeOK
  <2>6. Fresh' /\ Refusal'
    BY <1>4, <2>1 DEF Fresh, Refusal, Inward, Between
  <2>7. AnsweredOnce' /\ Unwinding'
    <3>1. panicked \in {"early", "late"} /\ pc = "recovered"
          /\ ~extra /\ (panicked = "late" => Sent(wire))
          /\ (panicked = "early" /\ ~req.gzip => ~Sent(wire))
      BY <1>4 DEF TypeOK, Unwinding, Done
    <3>2. extra' => Sent(wire)
      BY <1>4, <3>1
    <3> HIDE DEF IInv, Recovered, Sent
    <3> QED
      BY <2>1, <2>3, <3>1, <3>2 DEF AnsweredOnce, Unwinding, Done
  <2>8. Identified'
    BY <1>1, <2>1, <2>3 DEF Identified, Between, Done, Sent
  <2>9. Recorded'
    BY <1>4, <2>1, <2>3 DEF Recorded, Between
  <2>10. Permitted'
    BY <2>1, <2>3 DEF Permitted, Sent, Admitted, cfg
  <2>11. Reported'
    BY <1>4, <2>1, <2>3 DEF Reported, Sent, Done, Inward, Between
  <2>12. Labelled'
    BY <1>1, <1>4, <2>1, <2>3 DEF Labelled, Sent, Done, Between
  <2> QED
    BY <2>5, <2>6, <2>7, <2>8, <2>9, <2>10, <2>11, <2>12
<1> QED
  BY <1>3, <1>4

\* The next request has a response of its own.
LEMMA FinishStep == ASSUME IInv, Finish PROVE IInv'
<1> USE DEF Sent, IInv, Finish, Inward, Between, deployment, response,
           trail, Unsent
<1>1. TypeOK'
  <2>1. Unsent \in [status : Status \cup {0}, hdr : SUBSET HeaderName,
                    body : SUBSET {"plain", "gz"}]
    OBVIOUS
  <2>2. 200 \in Status
    BY DEF Status
  <2> HIDE DEF Unsent
  <2> QED
    BY <2>1, <2>2 DEF TypeOK
<1>2. Fresh' /\ Refusal'
  BY DEF Fresh, Refusal, Unsent
<1>3. Identified' /\ AnsweredOnce' /\ Unwinding'
  BY DEF Fresh, Identified, AnsweredOnce, Unwinding, Done, Unsent
<1>4. Recorded'
  BY DEF Fresh, Recorded, Done, Unsent
<1>5. Permitted'
  BY DEF Fresh, Permitted, Admitted, cfg
<1>6. Reported'
  BY ErrorShape DEF Fresh, Reported, Done
<1>7. Labelled'
  BY DEF Fresh, Labelled, Done, Unsent
<1> QED
  BY <1>1, <1>2, <1>3, <1>4, <1>5, <1>6, <1>7

\* Before anything has come up.
LEMMA InitIInv == Init => IInv
<1> SUFFICES ASSUME Init PROVE IInv
  OBVIOUS
<1> USE DEF Init, Between, Inward, Sent, Unsent
<1>1. TypeOK
  BY DEF TypeOK, Status
<1>2. Fresh /\ Refusal /\ Identified /\ AnsweredOnce /\ Unwinding
  BY DEF Fresh, Refusal, Identified, AnsweredOnce, Unwinding, Done
<1>3. Recorded /\ Permitted /\ Labelled
  BY DEF Recorded, Permitted, Labelled, Done
<1>4. Reported
  BY ErrorShape DEF Reported, Done
<1> QED
  BY <1>1, <1>2, <1>3, <1>4 DEF IInv

\* Every layer keeps the invariant.
LEMMA NextIInv == IInv /\ [Next]_vars => IInv'
<1> SUFFICES ASSUME IInv, [Next]_vars PROVE IInv'
  OBVIOUS
<1>1. CASE Boot \/ Redeploy \/ Arrive
  BY <1>1, BootStep, RedeployStep, ArriveStep
<1>2. CASE Recover \/ RequestID \/ Logging \/ Gzip \/ Mux \/ Auth
  BY <1>2, RecoverStep, IDStep, LoggingStep, GzipStep, MuxStep, AuthStep
<1>3. CASE Handler \/ Body \/ Panic
  BY <1>3, HandlerStep, BodyStep, PanicStep
<1>4. CASE GzipClose \/ LogLine \/ Recovered \/ Finish
  BY <1>4, CloseStep, LogStep, RecoveredStep, FinishStep
<1>5. CASE UNCHANGED vars
  <2> USE <1>5 DEF vars, deployment, response, trail, IInv
  <2>1. TypeOK' /\ AnsweredOnce' /\ Unwinding'
    BY DEF TypeOK, AnsweredOnce, Unwinding, Sent, Done
  <2>2. Fresh' /\ Refusal' /\ Identified'
    BY DEF Fresh, Refusal, Identified, Sent, Done
  <2>3. Recorded' /\ Permitted'
    BY DEF Recorded, Permitted, Sent, Admitted, cfg
  <2>4. Reported' /\ Labelled'
    BY DEF Reported, Labelled, Sent, Done
  <2> QED
    BY <2>1, <2>2, <2>3, <2>4
<1> QED
  BY <1>1, <1>2, <1>3, <1>4, <1>5 DEF Next
-----------------------------------------------------------------------------
\* The invariant holds throughout.
THEOREM Invariance == Spec => []IInv
BY InitIInv, NextIInv, PTL DEF Spec

\* Deployment, request, response and logs have their types.
THEOREM TypeCorrect == Spec => []TypeOK
<1>1. IInv => TypeOK
  BY DEF IInv
<1> QED
  BY <1>1, Invariance, PTL

\* A deployment is refused for its own faults only (config.go:73-78).
THEOREM RefusalIsRight == Spec => []RefusedRightly
<1>1. IInv => RefusedRightly
  <2> SUFFICES ASSUME IInv, ~Loads(file, env), file.whole,
                      ~(env.portSet /\ env.port <= 0)
               PROVE  ~env.portSet /\ file.port = 0
    BY DEF RefusedRightly, IInv, Refusal
  <2>1. file \in File /\ env \in Env
    BY DEF IInv, TypeOK
  <2>2. ~Valid(Override(file, env))
    BY DEF Loads, EnvRejected
  <2>3. /\ Override(file, env).whole = file.whole
        /\ Override(file, env).port = IF env.portSet THEN env.port ELSE file.port
    BY <2>1 DEF Override, File
  <2> QED
    BY <2>1, <2>2, <2>3 DEF Valid, Env, File
<1> QED
  BY <1>1, Invariance, PTL

\* Unless a handler panics the access log has one line, with the status the
\* client got (logging.go:12-43).
THEOREM LogIsTrue == Spec => []AccessLogTruthful
<1>1. IInv => AccessLogTruthful
  BY DEF IInv, AccessLogTruthful, Recorded, Identified, Done
<1> QED
  BY <1>1, Invariance, PTL

\* Every response carries the ID, however it came about (requestid.go:22-27).
THEOREM EveryResponseHasID == Spec => []RequestIDOnEvery
<1>1. IInv => RequestIDOnEvery
  BY DEF IInv, RequestIDOnEvery, Identified, Done
<1> QED
  BY <1>1, Invariance, PTL

\* No layer answers what another has answered, and a panic that nobody was ahead
\* of is the structured 500 (auth.go:29-32, recover.go:20-33, gzip.go:32).
THEOREM OneAnswer == Spec => []AnsweredOnce
<1>1. IInv => AnsweredOnce
  BY DEF IInv
<1> QED
  BY <1>1, Invariance, PTL

\* An upload is applied for the token in force only, and then it is answered
\* 204 (auth.go:22-34, config.go:94-96).
THEOREM UploadNeedsToken == Spec => []UploadAuthorized
<1>1. IInv => UploadAuthorized
  <2> SUFFICES ASSUME IInv, applied
               PROVE  /\ env.token # "none" => req.token = env.token
                      /\ env.token = "none" => req.token = file.token
                                               /\ req.token # "none"
                      /\ wire.status = 204
    BY DEF UploadAuthorized
  <2>1. Admitted /\ wire.status = 204
    BY DEF IInv, Permitted
  <2>2. file \in File
    BY DEF IInv, TypeOK
  <2>3. cfg.token = IF env.token # "none" THEN env.token ELSE file.token
    BY <2>2 DEF cfg, Override, File
  <2> QED
    BY <2>1, <2>3 DEF Admitted
<1> QED
  BY <1>1, Invariance, PTL

\* The error log has recover's line for a panic, the decorator's for what the
\* service returned and Adapt's for a 5xx of an upload (adapters.go:36-41,
\* logging.go:26-57, recover.go:22-30).
THEOREM ErrorLinesExact == Spec => []ErrorLogExact
<1>1. IInv => ErrorLogExact
  <2> SUFFICES ASSUME IInv, Done
               PROVE  /\ "recover" \in errlog <=> panicked # "no"
                      /\ "service" \in errlog <=> "ServiceError" \in failure.wraps
                      /\ req.route = "upload" /\ panicked = "no" =>
                           ("adapt" \in errlog <=> wire.status >= 500)
    BY DEF ErrorLogExact
  <2>1. "recover" \in errlog <=> panicked # "no"
    BY DEF IInv, Reported
  <2>2. "service" \in errlog <=> "ServiceError" \in failure.wraps
    BY DEF IInv, Reported
  <2>3. ASSUME req.route = "upload", panicked = "no"
        PROVE  "adapt" \in errlog <=> wire.status >= 500
    <3>1. CASE failure = NoError
      BY <2>3, <3>1, ErrorShape DEF IInv, Reported, Done, Inward, Between
    <3>2. CASE failure # NoError
      BY <3>2 DEF IInv, Reported
    <3> QED
      BY <3>1, <3>2
  <2> QED
    BY <2>1, <2>2, <2>3
<1> QED
  BY <1>1, Invariance, PTL

\* No fault of the server goes unlogged and none of the client is answered as
\* the server's (errors.go:26-59).
THEOREM FaultsAreTold == Spec => []FaultsTold
<1>1. IInv => FaultsTold
  <2> SUFFICES ASSUME IInv, failure # NoError
               PROVE  /\ ServerFault(failure) =>
                           /\ errlog # {}
                           /\ wire.status >= 500 \/ "NotExist" \in failure.wraps
                      /\ ClientFault(failure) => wire.status \in {400, 413}
    BY ErrorShape DEF FaultsTold, ServerFault, ClientFault
  <2>1. failure \in UploadErrors /\ wire.status = MapError(failure)
        /\ ("service" \in errlog <=> "ServiceError" \in failure.wraps)
    BY DEF IInv, TypeOK, Reported
  <2> QED
    BY <2>1, ErrorShape
<1> QED
  BY <1>1, Invariance, PTL

\* A body is coded as its response says, the file servers' aside
\* (gzip.go:24-33).
THEOREM BodyIsLabelled == Spec => []BodyDecodes
<1>1. IInv => BodyDecodes
  BY DEF IInv, BodyDecodes, Labelled, Identified, Done, Between
<1> QED
  BY <1>1, Invariance, PTL
=============================================================================
