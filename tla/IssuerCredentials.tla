--------------------------- MODULE IssuerCredentials ---------------------------
(***************************************************************************)
(* Credentials: the backend's credential routes over IssuerService, whose  *)
(* revocations are a set in memory, with the issuers' programs that call   *)
(* them, and the SDK's IssuerClient with the part of APIClient it calls;   *)
(* composed with SdkHooks, whose registry they read.                       *)
(*                                                                         *)
(* A credential hash is an account (the client checks it against the       *)
(* registry as one) as a caller writes it, in lower or mixed case.         *)
(***************************************************************************)
EXTENDS SdkHooks

CONSTANT Client     \* bound: requests in flight at once

VARIABLES
    revokedHashes,  \* IssuerService.revokedHashes
    request,        \* each client's request in flight
    confirmed       \* revocations acknowledged since the backend started

issuerVars == <<revokedHashes, request, confirmed>>
vars == <<hookVars, issuerVars>>

Case == {"lower", "mixed"}
Hash == Given \X Case
ToLowerCase(h) == <<h[1], "lower">>

Op == {"register", "revoke", "check", "sdk register", "sdk revoke", "check on chain"}
NoRequest == [at |-> "none"]
Requested(op, h) == [at |-> "sent", op |-> op, hash |-> h, owed |-> h[1] \in confirmed]
Serve(c, answer) ==
    request' = [request EXCEPT ![c] =
        [at |-> "served", op |-> @.op, hash |-> @.hash, owed |-> @.owed, answer |-> answer]]

Init ==
    /\ HookInit
    /\ revokedHashes = {}
    /\ request = [c \in Client |-> NoRequest]
    /\ confirmed = {}

(***************************************************************************)
(* Requests.  IssuerClient without the API registers and revokes nothing   *)
(* and reports success, so that only its calls to the API and its check    *)
(* are requests; the others come from programs that hold the API key.      *)
(***************************************************************************)
Request(c, op, h) ==
    /\ hook = "none"
    /\ request[c] = NoRequest
    /\ request' = [request EXCEPT ![c] = Requested(op, h)]
    /\ UNCHANGED <<hookVars, revokedHashes, confirmed>>

Respond(c) ==
    /\ request[c].at = "served"
    /\ request' = [request EXCEPT ![c] = NoRequest]
    /\ confirmed' = IF request[c].op = "revoke" THEN confirmed \cup {request[c].hash[1]}
                    ELSE confirmed
    /\ UNCHANGED <<hookVars, revokedHashes>>

\* The API's 30 s pass, or the connection fails, served or not.
TimesOut(c) ==
    /\ request[c].at # "none"
    /\ request' = [request EXCEPT ![c] = NoRequest]
    /\ UNCHANGED <<hookVars, revokedHashes, confirmed>>

\* IssuerClient.checkCredential reads the registry; the path it then asks the
\* API for does not exist on the backend, and the chain's answer is all there is.
CheckOnChain(c) ==
    /\ request[c].at = "sent" /\ request[c].op = "check on chain"
    /\ LET valid == request[c].hash[1] \in registered
       IN  Serve(c, [isValid |-> valid, isRevoked |-> ~valid])
    /\ UNCHANGED <<hookVars, revokedHashes, confirmed>>

\* APIClient keeps its token to itself: without the key the backend refuses.
Unauthorized(c) ==
    /\ request[c].at = "sent" /\ request[c].op \in {"sdk register", "sdk revoke"}
    /\ Serve(c, "refused")
    /\ UNCHANGED <<hookVars, revokedHashes, confirmed>>

(***************************************************************************)
(* IssuerService.                                                          *)
(***************************************************************************)
\* A credential is linked only to a registered identity; nothing is kept.
RegisterCredential(c) ==
    /\ request[c].at = "sent" /\ request[c].op = "register"
    /\ IF request[c].hash[1] \in registered THEN Serve(c, "linked") ELSE Serve(c, "refused")
    /\ UNCHANGED <<hookVars, revokedHashes, confirmed>>

\* Faulty variant: the hash is kept as it was written.
RevokeCredentialAsWritten(c) ==
    /\ request[c].at = "sent" /\ request[c].op = "revoke"
    /\ revokedHashes' = revokedHashes \cup {request[c].hash}
    /\ Serve(c, "revoked")
    /\ UNCHANGED <<hookVars, confirmed>>

RevokeCredential(c) ==
    /\ request[c].at = "sent" /\ request[c].op = "revoke"
    /\ revokedHashes' = revokedHashes \cup {ToLowerCase(request[c].hash)}
    /\ Serve(c, "revoked")
    /\ UNCHANGED <<hookVars, confirmed>>

\* Faulty variant: the hash is looked up as it was written.
CheckCredentialAsWritten(c) ==
    /\ request[c].at = "sent" /\ request[c].op = "check"
    /\ LET isRevoked == request[c].hash \in revokedHashes
       IN  Serve(c, [isValid |-> ~isRevoked, isRevoked |-> isRevoked])
    /\ UNCHANGED <<hookVars, revokedHashes, confirmed>>

CheckCredential(c) ==
    /\ request[c].at = "sent" /\ request[c].op = "check"
    /\ LET isRevoked == ToLowerCase(request[c].hash) \in revokedHashes
       IN  Serve(c, [isValid |-> ~isRevoked, isRevoked |-> isRevoked])
    /\ UNCHANGED <<hookVars, revokedHashes, confirmed>>

\* A restart forgets every revocation; requests in flight are cut off.
Restart ==
    /\ hook = "none"
    /\ revokedHashes' = {}
    /\ confirmed' = {}
    /\ request' = [c \in Client |-> NoRequest]
    /\ UNCHANGED hookVars

IssuerNext ==
    \/ \E c \in Client :
        \/ \E op \in Op, h \in Hash : Request(c, op, h)
        \/ CheckOnChain(c) \/ Unauthorized(c)
        \/ RegisterCredential(c) \/ RevokeCredential(c)
        \/ CheckCredential(c) \/ Respond(c) \/ TimesOut(c)
    \/ Restart

\* Bound: an application uses one hook, or the issuer's client.
Next == (HookNext /\ UNCHANGED issuerVars) \/ IssuerNext

Spec == Init /\ [][Next]_vars

(***************************************************************************)
(* Properties.                                                             *)
(***************************************************************************)
\* The hooks' part and the issuer's have the values the code gives them, and
\* revocations are kept in lower case, the form in which they are looked up.
TypeOK ==
    /\ HookTypeOK
    /\ revokedHashes \subseteq Account \X {"lower"}
    /\ confirmed \subseteq Account
    /\ \A c \in Client : request[c].at \in {"none", "sent", "served"}

\* A revocation the issuer was told of is seen by every check that starts
\* after it, however either wrote the hash, until the backend restarts: no
\* later request makes the credential valid again.
RevokedStaysRevoked ==
    \A c \in Client :
        request[c].at = "served" /\ request[c].op = "check" /\ request[c].owed =>
            request[c].answer.isRevoked
================================================================================
