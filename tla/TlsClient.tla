------------------------------ MODULE TlsClient ------------------------------
(***************************************************************************)
(* print_client_tls of the examples: main(), the TLS context it makes for  *)
(* its connection, and verify_certificate(), which OpenSSL calls for each  *)
(* certificate of the server's chain, from the authority down to the       *)
(* server's own, whose names are compared with the host.                   *)
(***************************************************************************)
EXTENDS Naturals, Sequences

CONSTANTS
  MaxNames,   \* bound on the subject alternative names of a certificate
  MaxChain,   \* bound on the length of a chain
  MaxShown    \* bound on the messages shown

ASSUME TlsClientAssumption == MaxNames \in Nat /\ MaxChain \in Nat \ {0} /\ MaxShown \in Nat

\* A name is the host's, another one, one with a NUL in it, or, among the
\* alternative names, no DNS name; a certificate may have no common name.
Names == {"host", "other", "nul"}
Certificates ==
  [san : UNION {[1 .. n -> Names \cup {"address"}] : n \in 0 .. MaxNames},
   cn : Names \cup {"missing"}]

VARIABLES
  tls_main,      \* where main() is: start, run or done
  tls,       \* the handshake: none, context, verifying, up or failed
  ctx,       \* the context: whether it asks for a certificate and knows the CA
  cert,      \* the certificate of the server
  left,      \* certificates of the chain not verified yet
  trusted,   \* history: whether OpenSSL found each of them trustworthy
  shown      \* messages shown

tlsVars == <<tls_main, tls, ctx, cert, left, trusted, shown>>

NoCertificate == [san |-> <<>>, cn |-> "missing"]

TlsInit ==
  /\ tls_main = "start" /\ tls = "none"
  /\ ctx = [verify_peer |-> FALSE, knows_ca |-> FALSE]
  /\ cert = NoCertificate /\ left = 0 /\ trusted = TRUE /\ shown = 0

\* main(): the number of arguments, get_connection(), connect() and run().
Start ==
  /\ tls_main = "start"
  /\ tls_main' \in {"run", "done"}
  /\ UNCHANGED <<tls, ctx, cert, left, trusted, shown>>

\* on_tls_init(): an exception of load_verify_file() is printed and the
\* context used as it is.
Context(loaded) == [verify_peer |-> TRUE, knows_ca |-> loaded]

on_tls_init ==
  /\ tls_main = "run" /\ tls = "none"
  /\ \E loaded \in BOOLEAN : ctx' = Context(loaded)
  /\ tls' = "context"
  /\ UNCHANGED <<tls_main, cert, left, trusted, shown>>

\* The server presents its chain.
Present ==
  /\ tls = "context"
  /\ cert' \in Certificates /\ left' \in 1 .. MaxChain
  /\ tls' = "verifying"
  /\ UNCHANGED <<tls_main, ctx, trusted, shown>>

\* The DNS names the loop of verify_subject_alternative_name() compares: it
\* ends at a name with a NUL.
Compared(san) == {i \in DOMAIN san : san[i] # "address" /\ \A j \in 1 .. i : san[j] # "nul"}

\* The result of the loop is that of its last comparison.
verify_subject_alternative_name(san) ==
  \E i \in Compared(san) : san[i] = "host" /\ \A j \in Compared(san) : j <= i

verify_common_name(cn) == cn = "host"

\* Faulty variant: the names of every certificate but the server's are looked at.
verify_certificate_Depth(depth, preverified) ==
  /\ preverified
  /\ depth # 0 => \/ verify_subject_alternative_name(cert.san)
                  \/ verify_common_name(cert.cn)

verify_certificate(depth, preverified) ==
  /\ preverified
  /\ depth = 0 => \/ verify_subject_alternative_name(cert.san)
                  \/ verify_common_name(cert.cn)

Complete(n) == n = 1

\* OpenSSL calls verify_certificate() for the next certificate, the server's
\* own last; its answer counts if the context asks for a certificate.
Verify ==
  /\ tls = "verifying" /\ left > 0
  /\ \E preverified \in IF ctx.knows_ca THEN BOOLEAN ELSE {FALSE} :
       /\ trusted' = (trusted /\ preverified)
       /\ tls' = IF ctx.verify_peer /\ ~verify_certificate(left - 1, preverified) THEN "failed"
                 ELSE IF Complete(left) THEN "up" ELSE "verifying"
  /\ left' = left - 1
  /\ UNCHANGED <<tls_main, ctx, cert, shown>>

\* on_message().
on_message_tls ==
  /\ tls_main = "run" /\ tls = "up" /\ shown < MaxShown
  /\ shown' = shown + 1
  /\ UNCHANGED <<tls_main, tls, ctx, cert, left, trusted>>

\* run() returns when the handshake failed or the connection is closed.
RunReturns ==
  /\ tls_main = "run" /\ tls \in {"up", "failed"}
  /\ tls_main' = "done"
  /\ UNCHANGED <<tls, ctx, cert, left, trusted, shown>>

TlsNext == Start \/ on_tls_init \/ Present \/ Verify \/ on_message_tls \/ RunReturns

TlsSpec == TlsInit /\ [][TlsNext]_tlsVars

-----------------------------------------------------------------------------
TlsTypeOK ==
  /\ tls_main \in {"start", "run", "done"}
  /\ tls \in {"none", "context", "verifying", "up", "failed"}
  /\ ctx \in [verify_peer : BOOLEAN, knows_ca : BOOLEAN]
  /\ cert \in Certificates
  /\ left \in 0 .. MaxChain /\ (tls = "up" => left = 0)
  /\ trusted \in BOOLEAN /\ shown \in 0 .. MaxShown

\* print_client_tls.cpp:160: "Load trusted CA certificates and verify the
\* server cert is trusted": also when the file cannot be loaded, nothing is
\* shown of a server whose chain is not trusted.
ShownIsTrusted == shown > 0 => trusted /\ ctx.knows_ca

\* Nothing is shown of a server whose own certificate names another host.
ShownIsNamed ==
  shown > 0 => cert.cn = "host" \/ \E i \in DOMAIN cert.san : cert.san[i] = "host"

\* What is shown is of the host that was asked for, as its authorities vouch.
ShownIsOfHost == ShownIsTrusted /\ ShownIsNamed

\* print_client_tls.cpp:44: "Verify that one of the subject alternative names
\* matches the given hostname": a trusted server is not refused if one does.
AnyNameCounts ==
  tls = "failed" /\ trusted => \A i \in DOMAIN cert.san : cert.san[i] # "host"
=============================================================================
