----------------------------- MODULE MCServers -----------------------------
(* A small instance of Servers for TLC. *)
EXTENDS Servers, TLC

MCCertificate == "tls.crt" :> "A" @@ "internal.crt" :> "B"

MCPrivateKey == "tls.key" :> "A" @@ "internal.key" :> "B"

(* One CA for both, one for the internal server only, one that is no PEM. *)
MCAuthority == "ca.crt" :> {"A", "B"} @@ "internal-ca.crt" :> {"B"} @@ "junk" :> {}

CertFiles == {"", "missing"} \cup DOMAIN MCCertificate

KeyFiles == {""} \cup DOMAIN MCPrivateKey

(* Any files for the public server; none, its own or half of them for the  *)
(* internal one.                                                           *)
MCCommandLines ==
    [scheme : {"", "http", "https"}, ca : {"", "missing"} \cup DOMAIN MCAuthority,
     minVersion : {"", "VersionTLS13", "TLS13"}, suites : {{}, {"GCM"}, {"GCM", ""}},
     cert : {[public |-> p, internal |-> i] : p \in CertFiles, i \in {"", "internal.crt"}},
     key : {[public |-> p, internal |-> i] : p \in KeyFiles, i \in {"", "internal.key"}}]

=============================================================================
