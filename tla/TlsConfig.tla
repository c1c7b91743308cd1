------------------------------ MODULE TlsConfig ------------------------------
(***************************************************************************)
(* TLS settings (src/sdk/tlsconfig/tlsconfig.go): the proto model, the     *)
(* options of the runtime, the conversions between them, and what building *)
(* a tls.Config from the options may give.                                 *)
(*                                                                         *)
(* PEM data and paths are abstract: a text is "" or a name.  Reading a     *)
(* file and parsing PEM may fail, so a builder is the set of its outcomes. *)
(***************************************************************************)
CONSTANTS
    Nil,     \* no value
    Failed   \* the builder returned an error

\* Nil is told apart from every record: it is not even a function.  The theorems
\* assume it; for TLC, Nil is a model value.
NilIsNoRecord == Nil # [x \in DOMAIN Nil |-> Nil[x]]

ClientAuthModes == {"none", "verify_if_given", "require_and_verify"}

\* A proto material is nil or a oneof, with a text, or not set at all.
MaterialFromProto(src) ==
    IF src = Nil \/ src.text = "" \/ src.source = "unset" THEN Nil
    ELSE [path |-> IF src.source = "path" THEN src.text ELSE "",
          pem  |-> IF src.source = "inline" THEN src.text ELSE ""]

MaterialToProto(m) ==
    IF m = Nil \/ (m.path = "" /\ m.pem = "") THEN Nil
    ELSE IF m.path # "" THEN [source |-> "path", text |-> m.path]
    ELSE [source |-> "inline", text |-> m.pem]

ClientOptionsFromProto(src) ==
    IF src = Nil THEN Nil
    ELSE LET out == [ca   |-> MaterialFromProto(src.ca),
                     cert |-> MaterialFromProto(src.cert),
                     key  |-> MaterialFromProto(src.key),
                     name |-> src.name,
                     skip |-> src.skip]
         IN  IF out = [ca |-> Nil, cert |-> Nil, key |-> Nil, name |-> "", skip |-> FALSE]
               THEN Nil ELSE out

ClientOptionsToProto(opts) ==
    IF opts = Nil THEN Nil
    ELSE [ca   |-> MaterialToProto(opts.ca),
          cert |-> MaterialToProto(opts.cert),
          key  |-> MaterialToProto(opts.key),
          name |-> opts.name,
          skip |-> opts.skip]

ClientAuthModeFromProto(mode) == IF mode \in ClientAuthModes THEN mode ELSE "none"
ClientAuthModeToProto(mode) == IF mode \in ClientAuthModes THEN mode ELSE "none"
EffectiveClientAuth(mode) == IF mode = "" THEN "none" ELSE mode

ServerOptionsFromProto(src) ==
    IF src = Nil THEN Nil
    ELSE LET out == [cert      |-> MaterialFromProto(src.cert),
                     key       |-> MaterialFromProto(src.key),
                     ca        |-> MaterialFromProto(src.ca),
                     client_ca |-> MaterialFromProto(src.client_ca),
                     name      |-> src.name,
                     auth      |-> ClientAuthModeFromProto(src.auth)]
         IN  IF out.cert = Nil /\ out.key = Nil /\ out.ca = Nil
                /\ out.client_ca = Nil /\ out.name = "" /\ out.auth = "none"
               THEN Nil ELSE out

ServerOptionsToProto(opts) ==
    IF opts = Nil THEN Nil
    ELSE [cert      |-> MaterialToProto(opts.cert),
          key       |-> MaterialToProto(opts.key),
          ca        |-> MaterialToProto(opts.ca),
          client_ca |-> MaterialToProto(opts.client_ca),
          name      |-> opts.name,
          auth      |-> ClientAuthModeToProto(opts.auth)]

-----------------------------------------------------------------------------
\* Exactly one of path and inline PEM.
ValidMaterial(m) == m = Nil \/ ((m.path = "") # (m.pem = ""))

ValidClientOptions(opts) ==
    /\ \A m \in {opts.ca, opts.cert, opts.key} : ValidMaterial(m)
    /\ (opts.cert = Nil) = (opts.key = Nil)

ValidServerOptions(opts) ==
    LET mode == EffectiveClientAuth(opts.auth) IN
    /\ mode \in ClientAuthModes
    /\ \A m \in {opts.cert, opts.key, opts.ca, opts.client_ca} : ValidMaterial(m)
    /\ opts.cert # Nil
    /\ opts.key # Nil
    /\ mode # "none" => opts.client_ca # Nil

\* Reading a file may fail; inline text is taken as it is.
ReadMaterial(m) ==
    IF m = Nil THEN {Failed} ELSE IF m.path # "" THEN {"pem", Failed} ELSE {"pem"}

\* The text may hold no certificate, or one that does not fit the key.
LoadCertPool(m) == ReadMaterial(m) \cup {Failed}

LoadKeyPair(cert, key, ca) ==
    IF {Failed} \in {ReadMaterial(m) : m \in {cert, key} \cup (IF ca = Nil THEN {} ELSE {ca})}
      THEN {Failed} ELSE {"pair", Failed}

\* What is not there need not be loaded, so options without any material
\* cannot fail.
ClientConfig(opts) ==
    IF opts = Nil THEN {Nil}
    ELSE IF ~ValidClientOptions(opts) THEN {Failed}
    ELSE LET pools == IF opts.ca = Nil THEN {Nil} ELSE LoadCertPool(opts.ca)
             pairs == IF opts.cert = Nil THEN {Nil} ELSE LoadKeyPair(opts.cert, opts.key, Nil)
         IN  {IF Failed \in {pool, pair} THEN Failed
              ELSE [pool |-> pool # Nil, certificate |-> pair # Nil,
                    name |-> opts.name, skip |-> opts.skip] : pool \in pools, pair \in pairs}

ServerConfig(opts) ==
    IF opts = Nil THEN {Nil}
    ELSE IF ~ValidServerOptions(opts) THEN {Failed}
    ELSE LET mode  == EffectiveClientAuth(opts.auth)
             pools == IF mode = "none" THEN {Nil} ELSE LoadCertPool(opts.client_ca)
             pairs == LoadKeyPair(opts.cert, opts.key, opts.ca)
         IN  {IF Failed \in {pool, pair} THEN Failed
              ELSE [auth |-> mode, pool |-> pool # Nil] : pool \in pools, pair \in pairs}
=============================================================================
