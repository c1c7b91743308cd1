--------------------------- MODULE MCAppLifecycle ---------------------------
(* Small instances of AppLifecycle: the gRPC server is registered before the *)
(* gateway, as service.New does.                                             *)
EXTENDS AppLifecycle

MCKind == <<"grpc", "http">>
=============================================================================
