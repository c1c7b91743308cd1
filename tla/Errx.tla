-------------------------------- MODULE Errx --------------------------------
(***************************************************************************)
(* Application errors (src/sdk/errx/errx.go) and what they become on the   *)
(* wire.                                                                   *)
(*                                                                         *)
(* A Go error is a chain, outermost first, of links: an *errx.Error        *)
(* ("app"), a gRPC status error ("status"), a context error ("canceled",   *)
(* "deadline") or any other error ("note").  Texts are abstracted to where *)
(* they come from: "internal" is text a developer wrote for himself, or    *)
(* the text of a whole chain, "public" was chosen for clients, "default"   *)
(* is the text of a code, "peer" is the message of a status, "" is none.   *)
(***************************************************************************)
EXTENDS Sequences, SequencesExt

NormalizeCode(code) == IF code = "OK" THEN "Internal" ELSE code

PickCode(preferred, fallback) ==
    IF preferred # "OK" THEN NormalizeCode(preferred) ELSE NormalizeCode(fallback)

\* A new value of a key takes the place of the old one.
PutField(fields, f) ==
    LET i == SelectLastInSeq(fields, LAMBDA g : g.key = f.key) IN
    IF f.key = "" THEN fields
    ELSE IF i = 0 THEN Append(fields, f)
    ELSE [fields EXCEPT ![i] = f]

MergeFields(base, extra) ==
    FoldLeft(PutField, SelectSeq(base, LAMBDA f : f.key # ""), extra)

\* The text of a chain: an *Error without a cause says its message, everything
\* else adds words of its own ("rpc error: code = ...", "load user: ...").
ErrorText(chain) ==
    IF chain = <<>> THEN ""
    ELSE IF chain[1].kind = "app" /\ chain[1].error.cause = <<>>
      THEN chain[1].error.message
    ELSE "internal"

FinalizeMessages(e) ==
    LET public  == IF e.public = "" THEN "default" ELSE e.public
        message == IF e.message = "" THEN ErrorText(e.cause) ELSE e.message
    IN  [e EXCEPT !.public = public,
                  !.message = IF message = "" THEN public ELSE message]

\* errx.New(code, message, Public(public), Fields(fields...)).
NewError(code, message, public, fields) ==
    FinalizeMessages([code |-> NormalizeCode(code), message |-> message,
                      public |-> public, fields |-> MergeFields(<<>>, fields),
                      cause |-> <<>>])

FirstLink(chain, kind) == SelectInSeq(chain, LAMBDA link : link.kind = kind)
HasLink(chain, kind) == FirstLink(chain, kind) # 0

\* An *errx.Error was finalized when it was built: it has a code other than OK
\* and a public text.  "internal" names no text that was chosen for clients; an
\* error has it as its public text only from a wrapped status it was made of.
IsRecord(e) ==
    e = [code |-> e.code, message |-> e.message, public |-> e.public, fields |-> e.fields,
         cause |-> e.cause]

IsError(e) ==
    /\ IsRecord(e)
    /\ e.code # "OK"
    /\ e.public # ""

IsChain(chain) ==
    /\ Len(chain) \in Nat
    /\ \A i \in 1..Len(chain) :
         /\ chain[i].kind = "app" =>
              /\ IsError(chain[i].error)
              /\ chain[i].error.public = "internal" => FirstLink(chain, "status") > i
         /\ chain[i].kind = "status" =>
              chain[i].message # "internal" /\ \A m \in chain[i].details : m.public # "internal"

\* grpcstatus.FromError: the first status of the chain, whose message is the
\* text of the whole chain unless the status is the outermost error.
StatusOf(chain) ==
    LET i == FirstLink(chain, "status") IN
    [code |-> chain[i].code, details |-> chain[i].details,
     message |-> IF i = 1 THEN chain[i].message ELSE ErrorText(chain)]

\* context.Canceled is looked for before context.DeadlineExceeded.
CodeFromError(chain) ==
    CASE HasLink(chain, "canceled") -> "Canceled"
      [] ~HasLink(chain, "canceled") /\ HasLink(chain, "deadline") -> "DeadlineExceeded"
      [] OTHER -> IF HasLink(chain, "status") THEN StatusOf(chain).code ELSE "Internal"

\* The details of a status: the metadata of its errx ErrorInfo, if it has one.
\* This version sends none, and understands those of one that does.
HasErrxDetails(st) == st.details # {}
NoMetadata == [message |-> "", public |-> "", fields |-> <<>>]

DecodeFields(metadata) == SelectSeq(metadata.fields, LAMBDA f : f.key # "")

FromStatus(st, chain) ==
    LET metadata == IF HasErrxDetails(st) THEN CHOOSE m \in st.details : TRUE ELSE NoMetadata
        OrStatus(text) == IF text = "" THEN st.message ELSE text
    IN  FinalizeMessages([code |-> NormalizeCode(st.code), message |-> OrStatus(metadata.message),
                          public |-> OrStatus(metadata.public), fields |-> DecodeFields(metadata),
                          cause |-> chain])

AppOf(chain) == chain[FirstLink(chain, "app")].error

FromError(chain) ==
    IF HasLink(chain, "app") THEN AppOf(chain)
    ELSE IF HasLink(chain, "status") THEN FromStatus(StatusOf(chain), chain)
    ELSE FinalizeMessages([code |-> CodeFromError(chain), message |-> ErrorText(chain),
                           public |-> "", fields |-> <<>>, cause |-> chain])

Wrap(chain, code, message, public, fields) ==
    LET base == FromError(chain) IN
    FinalizeMessages(
        [code    |-> PickCode(code, base.code),
         message |-> IF message = "" THEN base.message ELSE message,
         public  |-> IF public = "" THEN base.public ELSE public,
         fields  |-> MergeFields(base.fields, fields),
         cause   |-> chain])

\* What the server interceptor returns for the error of a handler.
ServerError(chain) ==
    LET st == StatusOf(chain) IN
    IF HasLink(chain, "app") THEN FinalizeMessages(AppOf(chain))
    ELSE IF ~HasLink(chain, "status")
      THEN Wrap(chain, CodeFromError(chain), ErrorText(chain), "", <<>>)
    ELSE IF HasErrxDetails(st) THEN FinalizeMessages(FromStatus(st, chain))
    ELSE Wrap(chain, st.code, st.message, st.message, <<>>)

\* Mutant: the message of the error is sent instead of its public text.
GRPCStatusOfMessage(e) ==
    [code |-> NormalizeCode(e.code), message |-> e.message, details |-> {NoMetadata}]

\* The status that leaves the process: a code, the public text and nothing of
\* the fields, the stack or the internal message.
GRPCStatus(e) == [code |-> NormalizeCode(e.code), message |-> e.public, details |-> {NoMetadata}]

\* The chain the client side receives, and what its interceptor makes of it.
Received(st) ==
    <<[kind |-> "status", code |-> st.code, message |-> st.message, details |-> st.details]>>

Normalize(chain, fields) ==
    LET base == FromError(chain) IN
    IF fields = <<>> THEN base
    ELSE FinalizeMessages([base EXCEPT !.fields = MergeFields(@, fields)])
=============================================================================
