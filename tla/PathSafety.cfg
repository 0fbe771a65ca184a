\* Every deployment, route, header and outcome, one request after another.
SPECIFICATION Spec
CONSTANTS
  Route = {"servers", "upload", "healthz", "readyz", "docs", "static", "other"}
INVARIANTS
  TypeOK
  RefusedRightly
  AccessLogTruthful
  RequestIDOnEvery
  AnsweredOnce
  UploadAuthorized
  ErrorLogExact
  FaultsTold
  BodyDecodes
