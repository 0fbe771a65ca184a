---------------------------- MODULE RequestPath ----------------------------
(***************************************************************************)
(* One request's way through the middleware chain and back: recover,       *)
(* request ID, access log, gzip, the mux, auth, the adapted handler; and   *)
(* before it the configuration the process came up with.                   *)
(*                                                                         *)
(* What matters is the order in which the layers touch the response: the   *)
(* header map can be changed until the status line is sent, the status is  *)
(* sent once, an implicit 200 is sent by the first byte of the body, and   *)
(* deferred calls run while a panic unwinds.  Headers and bodies are       *)
(* reduced to what tells responses apart, errors as in ErrorMap.           *)
(***************************************************************************)
EXTENDS ErrorMap, ServerConfig

CONSTANTS Route   \* the routes the requests of a run use

AllRoutes == {"servers", "upload", "healthz", "readyz", "docs", "static",
              "other"}

ASSUME RouteAssumption == Route \subseteq AllRoutes

VARIABLES
  pc,        \* the layer the request is in, or the process while it boots
  file, env, \* the deployment: config file and environment
  req,       \* what the request asks for
  hdr,       \* names in the response's header map
  wire,      \* what net/http has sent
  recorder,  \* statusRecorder.status
  extra,     \* a second WriteHeader was called, which net/http ignores
  panicked,  \* "no", or whether the handler had written when it panicked
  applied,   \* the upload handler has replaced the catalog
  failure,   \* the error the handler returned to Adapt
  access,    \* statuses of this request's access-log lines
  errlog     \* who has logged an error, with its cause

deployment == <<file, env>>
response == <<hdr, wire, recorder, extra>>
trail == <<panicked, applied, failure, access, errlog>>
vars == <<pc, deployment, req, response, trail>>

\* The token the client knows: of the file, of the environment, another, none.
Request == [route : Route, gzip : BOOLEAN, token : {"file", "env", "wrong", "none"}]

Status == {200, 204, 302, 304, 400, 401, 404, 405, 413, 500, 503}

\* Nothing has been sent: there is no status yet.
Unsent == [status |-> 0, hdr |-> {}, body |-> {}]

HeaderName == {"id", "encoding", "type", "etag"}

TypeOK ==
  /\ pc \in {"boot", "refused", "idle", "recover", "id", "log", "gzip",
             "mux", "auth", "handler", "body", "gzclose", "logline", "recovered", "done"}
  /\ file \in File /\ env \in Env
  /\ req \in Request
  /\ hdr \subseteq HeaderName
  /\ wire \in [status : Status \cup {0}, hdr : SUBSET HeaderName,
               body : SUBSET {"plain", "gz"}]
  /\ recorder \in Status
  /\ extra \in BOOLEAN /\ applied \in BOOLEAN
  /\ failure \in UploadErrors \cup {NoError}
  /\ panicked \in {"no", "early", "late"}
  /\ access \subseteq Status /\ errlog \subseteq {"service", "adapt", "recover"}

Init ==
  /\ pc = "boot" /\ file \in File /\ env \in Env /\ req \in Request
  /\ hdr = {} /\ wire = Unsent /\ recorder = 200 /\ extra = FALSE
  /\ panicked = "no" /\ applied = FALSE /\ failure = NoError
  /\ access = {} /\ errlog = {}

\* The configuration the process runs with.
cfg == Override(file, env)
-----------------------------------------------------------------------------
(* The process comes up, or main's log.Fatalf ends it, until it is deployed *)
(* anew.                                                                   *)

Boot ==
  /\ pc = "boot"
  /\ pc' = IF Loads(file, env) THEN "idle" ELSE "refused"
  /\ UNCHANGED <<deployment, req, response, trail>>

Redeploy ==
  /\ pc \in {"refused", "idle"}
  /\ pc' = "boot"
  /\ file' \in File /\ env' \in Env
  /\ UNCHANGED <<req, response, trail>>
-----------------------------------------------------------------------------
(* net/http's ResponseWriter (external): the header map is frozen by the   *)
(* first status line, 204 and 304 have no body.                            *)

Sent(x) == x.status # 0

SendStatus(x, code, h) ==
  IF Sent(x) THEN x ELSE [status |-> code, hdr |-> h, body |-> {}]

SendBody(x, h, seg) ==
  LET y == SendStatus(x, 200, h)
  IN  IF y.status \in {204, 304} THEN y ELSE [y EXCEPT !.body = @ \cup {seg}]

\* WriteHeader below the gzip layer: gzipResponseWriter passes it on, the
\* recorder notes it, whether net/http still takes it or not.
WriteHeader(code, h) ==
  /\ recorder' = code
  /\ extra' = (extra \/ Sent(wire))
  /\ wire' = SendStatus(wire, code, h)
-----------------------------------------------------------------------------
(* What a handler can answer: the status (0 when it writes a body without  *)
(* one), the headers it sets and deletes, whether there is a body, the     *)
(* error it answers, if it is one Adapt was given.                         *)

Answer(code, set, body) ==
  [code |-> code, set |-> set, del |-> {}, body |-> body, err |-> NoError]

\* httperr.WriteJSON of an error.
ErrorJSON(code) == Answer(code, {"type"}, TRUE)

Adapted(err) == [ErrorJSON(MapError(err)) EXCEPT !.err = err]

\* writeJSON: a body json.Marshal refuses (a price that is not a number) is
\* answered with http.Error; a cacheable one may meet If-None-Match.
CacheableJSON ==
  {Answer(500, {"type"}, TRUE), Answer(304, {"etag"}, FALSE),
   Answer(200, {"etag", "type"}, TRUE)}

\* A file server's error (external): http.serveError drops Content-Encoding,
\* which net/http takes for a header of the file it failed to send.
FileError == [Answer(404, {"type"}, TRUE) EXCEPT !.del = {"encoding"}]

Answers(route) ==
  CASE route = "servers" -> CacheableJSON \cup {Adapted(APIError(400))}
    [] route = "upload"  -> {Answer(204, {}, FALSE)}
                              \cup {Adapted(err) : err \in UploadErrors}
    [] route = "healthz" -> {Answer(200, {}, FALSE)}
    [] route = "readyz"  -> {Answer(200, {}, FALSE), ErrorJSON(503)}
    [] route = "docs"    -> {Answer(0, {"type"}, TRUE), FileError}
    [] route = "static"  -> {Answer(200, {"type"}, TRUE), FileError}
    [] route = "other"   -> {Answer(302, {"type"}, TRUE), ErrorJSON(404),
                             ErrorJSON(405)}
-----------------------------------------------------------------------------
(* On the way in.                                                          *)

Arrive ==
  /\ pc = "idle"
  /\ pc' = "recover"
  /\ req' \in Request
  /\ UNCHANGED <<deployment, response, trail>>

\* The deferred recover is in place; nothing else happens.
Recover ==
  /\ pc = "recover"
  /\ pc' = "id"
  /\ UNCHANGED <<deployment, req, response, trail>>

\* Mutant: the ID is put on the response after the handler has written it.
RequestIDLate ==
  /\ pc = "id"
  /\ pc' = "log"
  /\ UNCHANGED <<deployment, req, response, trail>>

RequestID ==
  /\ pc = "id"
  /\ hdr' = hdr \cup {"id"}
  /\ pc' = "log"
  /\ UNCHANGED <<deployment, req, wire, recorder, extra, trail>>

\* Mutant: the recorder starts at the zero value of its struct.
LoggingNoDefault ==
  /\ pc = "log"
  /\ recorder' = 0
  /\ pc' = "gzip"
  /\ UNCHANGED <<deployment, req, hdr, wire, extra, trail>>

Logging ==
  /\ pc = "log"
  /\ recorder' = 200
  /\ pc' = "gzip"
  /\ UNCHANGED <<deployment, req, hdr, wire, extra, trail>>

\* Mutant: the header is set once the handler has returned.
GzipLabelsLate ==
  /\ pc = "gzip"
  /\ pc' = "mux"
  /\ UNCHANGED <<deployment, req, response, trail>>

Gzip ==
  /\ pc = "gzip"
  /\ hdr' = IF req.gzip THEN hdr \cup {"encoding"} ELSE hdr
  /\ pc' = "mux"
  /\ UNCHANGED <<deployment, req, wire, recorder, extra, trail>>

Mux ==
  /\ pc = "mux"
  /\ pc' = IF req.route = "upload" THEN "auth" ELSE "handler"
  /\ UNCHANGED <<deployment, req, response, trail>>

\* The bearer token must be the configured one, and an empty configured token
\* admits nobody.
Admitted == cfg.token # "none" /\ req.token = cfg.token

Unauthorized == hdr' = hdr \cup {"type"} /\ WriteHeader(401, hdr')

\* Mutant: no return after the 401 has been written.
AuthFallsThrough ==
  /\ pc = "auth"
  /\ IF Admitted THEN UNCHANGED response ELSE Unauthorized
  /\ pc' = "handler"
  /\ UNCHANGED <<deployment, req, trail>>

Auth ==
  /\ pc = "auth"
  /\ IF Admitted THEN pc' = "handler" /\ UNCHANGED response
                 ELSE pc' = "body" /\ Unauthorized
  /\ UNCHANGED <<deployment, req, trail>>
-----------------------------------------------------------------------------
(* The handler.                                                            *)

Respond(a) ==
  /\ hdr' = (hdr \cup a.set) \ a.del
  /\ IF a.code = 0 THEN UNCHANGED <<recorder, extra, wire>>
                   ELSE WriteHeader(a.code, hdr')
  /\ failure' = a.err
  /\ errlog' = errlog \cup DecoratorLogs(a.err) \cup AdaptLogs(a.err)
  /\ applied' = (req.route = "upload" /\ a.err = NoError)
  /\ pc' = IF a.body THEN "body" ELSE "gzclose"

Handler ==
  /\ pc = "handler"
  /\ \E a \in Answers(req.route) : Respond(a)
  /\ UNCHANGED <<deployment, req, panicked, access>>

\* The body goes through the compressor if there is one.
Body ==
  /\ pc = "body"
  /\ wire' = SendBody(wire, hdr, IF req.gzip THEN "gz" ELSE "plain")
  /\ pc' = "gzclose"
  /\ UNCHANGED <<deployment, req, hdr, recorder, extra, trail>>

\* A handler may panic, before it has sent anything or after its status.
Panic ==
  /\ pc \in {"handler", "body"} /\ wire.status # 401
  /\ panicked' = IF Sent(wire) THEN "late" ELSE "early"
  /\ pc' = "gzclose"
  /\ UNCHANGED <<deployment, req, response, applied, failure, access, errlog>>
-----------------------------------------------------------------------------
(* On the way out.                                                         *)

\* The deferred gz.Close, in a panic too: whatever was written, the gzip
\* header and trailer are, and the first byte sends an implicit 200.
GzipClose ==
  /\ pc = "gzclose"
  /\ wire' = IF req.gzip THEN SendBody(wire, hdr, "gz") ELSE wire
  /\ pc' = "logline"
  /\ UNCHANGED <<deployment, req, hdr, recorder, extra, trail>>

\* The access-log line is not deferred: a panic passes it by.
LogLine ==
  /\ pc = "logline"
  /\ access' = IF panicked = "no" THEN access \cup {recorder} ELSE access
  /\ pc' = "recovered"
  /\ UNCHANGED <<deployment, req, response, panicked, applied, failure, errlog>>

\* The deferred recover: it logs the panic and writes a 500 to the writer
\* below the recorder and the compressor.  Then net/http ends the response,
\* which sends an implicit 200 if nothing was sent.
Recovered ==
  /\ pc = "recovered"
  /\ IF panicked = "no"
       THEN /\ wire' = SendStatus(wire, 200, hdr)
            /\ UNCHANGED <<hdr, extra, errlog>>
       ELSE /\ hdr' = hdr \cup {"type"}
            /\ extra' = (extra \/ Sent(wire))
            /\ wire' = SendBody(SendStatus(wire, 500, hdr'), hdr', "plain")
            /\ errlog' = errlog \cup {"recover"}
  /\ pc' = "done"
  /\ UNCHANGED <<deployment, req, recorder, panicked, applied, failure, access>>

\* A response is its request's own.
Finish ==
  /\ pc = "done"
  /\ pc' = "idle"
  /\ hdr' = {} /\ wire' = Unsent /\ recorder' = 200 /\ extra' = FALSE
  /\ panicked' = "no" /\ applied' = FALSE /\ failure' = NoError
  /\ access' = {} /\ errlog' = {}
  /\ UNCHANGED <<deployment, req>>

Next ==
  \/ Boot \/ Redeploy \/ Arrive
  \/ Recover \/ RequestID \/ Logging \/ Gzip \/ Mux \/ Auth
  \/ Handler \/ Body \/ Panic
  \/ GzipClose \/ LogLine \/ Recovered \/ Finish

Spec == Init /\ [][Next]_vars
-----------------------------------------------------------------------------
Done == pc = "done"

\* A deployment is refused for its own faults only: a setting the environment
\* gives replaces the file's before anything is checked, so a file without a
\* port is none when PORT is set (config.go:73-78, docs/api.md:43-48).
RefusedRightly ==
  pc = "refused" =>
    \/ ~file.whole
    \/ env.portSet /\ env.port <= 0
    \/ ~env.portSet /\ file.port = 0

\* The access log tells the truth: unless a handler panics, a request has one
\* line, with the status the client got, whatever layers the status came
\* through and even if nobody called WriteHeader (logging.go:12-43).
AccessLogTruthful ==
  Done /\ panicked = "no" => access = {wire.status}

\* Every response carries its request's ID, 304s, errors and recovered panics
\* included (requestid.go:22-27, docs/api.md:256).
RequestIDOnEvery == Done => "id" \in wire.hdr

\* No layer answers a request another layer has answered: that a second status is
\* dropped means that recover came too late, after a panic whose response the
\* handler had begun or the compressor began while it unwound.  Any other panic
\* is the structured 500 and nothing else (auth.go:29-32, adapters.go,
\* recover.go:20-33, gzip.go:32).
AnsweredOnce ==
  /\ extra => panicked = "late" \/ (panicked = "early" /\ req.gzip)
  /\ Done /\ panicked = "early" /\ ~req.gzip =>
       wire.status = 500 /\ wire.body = {"plain"}

\* An upload is applied for one token only: the environment's if that has one,
\* or else the file's, and nobody's if neither has one, so a token that was
\* replaced opens nothing (auth.go:22-34, config.go:94-96, docs/api.md:43-48).
\* A client is never told of a failure after its upload was applied.
UploadAuthorized ==
  applied => /\ env.token # "none" => req.token = env.token
             /\ env.token = "none" => req.token = file.token /\ req.token # "none"
             /\ Done /\ panicked = "no" => wire.status = 204

\* An upload's error lines: recover's for a panic, the decorator's for whatever
\* the service returned, a bad CSV included, and Adapt's exactly with a 5xx, so
\* that a panic is the only other 500 (adapters.go:36-41, logging.go:26-57,
\* recover.go:22-30, docs/api.md:282-288).  Not every 5xx of the service has a
\* line: a listing that cannot be encoded and the 503 of /readyz have none.
ErrorLogExact ==
  Done => /\ "recover" \in errlog <=> panicked # "no"
          /\ "service" \in errlog <=> "ServiceError" \in failure.wraps
          /\ req.route = "upload" /\ panicked = "no" =>
               ("adapt" \in errlog <=> wire.status >= 500)

\* No fault of the server under an upload goes unlogged, not even the one that
\* is answered as the client's, a 404 for an upload directory that has gone
\* (errors.go:41); and no fault of the client is answered as the server's.
FaultsTold ==
  Done /\ panicked = "no" =>
    /\ ServerFault(failure) =>
         /\ errlog # {}
         /\ wire.status >= 500 \/ "NotExist" \in failure.wraps
    /\ ClientFault(failure) => wire.status \in {400, 413}

\* What the client is told of the body's coding is what it gets, for every
\* answer, error and empty body of the service's own handlers (gzip.go:24-33).
\* The file servers behind /docs and /ui are another matter: see FileError.
BodyDecodes ==
  Done /\ panicked = "no" /\ req.route \notin {"docs", "static"} =>
    wire.body \subseteq (IF "encoding" \in wire.hdr THEN {"gz"} ELSE {"plain"})

\* docs/api.md:294-296: a panic in any handler is turned into a structured
\* 500.  Here only of panics before the handler has sent anything.
PanicIs500 ==
  Done /\ panicked = "early" => wire.status = 500 /\ wire.body = {"plain"}
=============================================================================
