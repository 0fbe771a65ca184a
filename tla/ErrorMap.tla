------------------------------ MODULE ErrorMap ------------------------------
(***************************************************************************)
(* api.MapError: which status an error of any layer becomes.               *)
(*                                                                         *)
(* errors.As and errors.Is search the whole chain an error wraps, so an    *)
(* error is the set of what its chain holds; `code' is the status field of *)
(* the APIError in it, if any.  Which operation failed and what the        *)
(* message says are left out.                                              *)
(***************************************************************************)
EXTENDS Naturals

Link == {"APIError", "CSVParseError", "ServiceError", "StoreError", "NotExist"}

NoError == [wraps |-> {}, code |-> 0]
APIError(code) == [wraps |-> {"APIError"}, code |-> code]

\* Another layer's error around links; any other error (io, csv) is no link.
ServiceError(links) == [wraps |-> links \cup {"ServiceError"}, code |-> 0]

\* An APIError without a status is an internal error.
StatusCode(err) == IF err.code = 0 THEN 500 ELSE err.code

\* The first three tests decide.  Peeling a ServiceError or a StoreError and
\* starting over finds nothing they did not find around it: it chooses the
\* words of the 500.
MapError(err) ==
  IF err = NoError THEN 200
  ELSE IF "APIError" \in err.wraps THEN StatusCode(err)
  ELSE IF "CSVParseError" \in err.wraps THEN 400
  ELSE IF "NotExist" \in err.wraps THEN 404
  ELSE 500

\* What an upload can fail with: its form, the body it reads back, the parser,
\* the file system under SaveUpload.
UploadErrors ==
  {APIError(400), APIError(413), ServiceError({}),
   ServiceError({"CSVParseError"}), ServiceError({"StoreError"}),
   ServiceError({"StoreError", "NotExist"})}

\* Mutant: logAtLevel looks at the status it will become.
DecoratorLogs5xx(err) ==
  IF "ServiceError" \in err.wraps /\ MapError(err) >= 500 THEN {"service"}
                                                          ELSE {}

\* loggingService logs what UploadServerData returns, at Error if it failed.
DecoratorLogs(err) == IF "ServiceError" \in err.wraps THEN {"service"} ELSE {}

\* Mutant: every error is logged.
AdaptLogsAll(err) == IF MapError(err) >= 400 THEN {"adapt"} ELSE {}

\* Adapt logs an error that becomes a 5xx.
AdaptLogs(err) == IF MapError(err) >= 500 THEN {"adapt"} ELSE {}

\* Whose fault it is: the request's, or the server's.
ClientFault(err) == err.wraps \cap {"APIError", "CSVParseError"} # {}
ServerFault(err) == err # NoError /\ ~ClientFault(err)
=============================================================================
