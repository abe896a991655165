----------------------------- MODULE MCService -----------------------------
(* A finite instance of Service.                                           *)
EXTENDS Service, TLC

CONSTANTS a, b, r1, r2, r3, i1

(* One text redacted through HTTP, another through gRPC, and a request     *)
(* that restores; every form of each occurs.                               *)
Redacting(api, text) ==
  {c \in Calls : c.api = api /\ c.op # "restore" /\ (c.op = "redact" => c.text = text)}

Restoring == {c \in Calls : c.op = "restore" /\ (c.form = "text" \/ c.id = i1)}

Roles == r1 :> Redacting("http", a) @@ r2 :> Redacting("grpc", b) @@ r3 :> Restoring

=============================================================================
