--------------------------- MODULE GatewayReload ---------------------------
(***************************************************************************)
(* The files the gateway reads again while it serves: its serving key      *)
(* pair, found changed by the certificate's modification time and read in  *)
(* two reads; the client CA bundle, compared by content; and the projected *)
(* token, cached between reads.  The kubelet replaces a mounted secret at  *)
(* once, between any two of these reads.                                   *)
(***************************************************************************)
EXTENDS Naturals

CONSTANTS
    MaxRotations,   \* bound on replacements of each mounted secret
    Bundles,        \* contents of the client CA bundle: a set of roots, {} when it is not usable
    Roots

VARIABLES
    pair,           \* the version of the mounted key pair, which is also its modification time
    reloader,       \* certReloader: [served, lastMod, pc, mod, cert]
    caFile, trust,  \* the mounted bundle, and the roots the gateway trusts
    caWrites,
    tickets,        \* roots whose clients hold a session ticket
    accepted,       \* the root of the connection accepted last, or "none"
    tokenFile, token, tokenDue \* the mounted token (0: unreadable), the cached one (0: none), cache interval over

reloadVars == <<pair, reloader, caFile, trust, caWrites, tickets, accepted, tokenFile, token, tokenDue>>
certVars == <<pair, reloader>>
caVars == <<caFile, trust, caWrites, tickets, accepted>>
tokenVars == <<tokenFile, token, tokenDue>>

\* newCertReloader and gatewayTLSConfig have loaded what is mounted; watch has not begun.
ReloadInit ==
    /\ pair = 1 /\ reloader = [served |-> 1, lastMod |-> 0, pc |-> "boot", mod |-> 0, cert |-> 0]
    /\ caFile \in Bundles \ {{}} /\ trust = caFile /\ caWrites = 0 /\ tickets = {} /\ accepted = "none"
    /\ tokenFile = 1 /\ token = 0 /\ tokenDue = TRUE

RotatePair == pair <= MaxRotations /\ pair' = pair + 1 /\ UNCHANGED <<reloader, caVars, tokenVars>>

\* watch takes the modification time it compares with when it starts, not when the pair was loaded.
startWatch ==
    /\ reloader.pc = "boot" /\ reloader' = [reloader EXCEPT !.pc = "wait", !.lastMod = pair]
    /\ UNCHANGED <<pair, caVars, tokenVars>>
watchTick ==
    /\ reloader.pc = "wait" /\ pair # reloader.lastMod
    /\ reloader' = [reloader EXCEPT !.pc = "cert", !.mod = pair]
    /\ UNCHANGED <<pair, caVars, tokenVars>>
readCertFile ==
    /\ reloader.pc = "cert" /\ reloader' = [reloader EXCEPT !.pc = "key", !.cert = pair]
    /\ UNCHANGED <<pair, caVars, tokenVars>>

\* Mutant: a pair that does not match counts as loaded.
Mutant_BaselineMovesOnFailure ==
    /\ reloader.pc = "key"
    /\ reloader' = [reloader EXCEPT !.pc = "wait", !.lastMod = pair, !.served = IF reloader.cert = pair THEN pair ELSE @]
    /\ UNCHANGED <<pair, caVars, tokenVars>>

\* LoadX509KeyPair refuses a key that is not the certificate's; the old pair stays and the next tick tries again.
reloadPair ==
    /\ reloader.pc = "key"
    /\ reloader' = IF reloader.cert = pair
                   THEN [reloader EXCEPT !.pc = "wait", !.served = pair, !.lastMod = reloader.mod]
                   ELSE [reloader EXCEPT !.pc = "wait"]
    /\ UNCHANGED <<pair, caVars, tokenVars>>

-----------------------------------------------------------------------------
\* readClientCATrust: every block must be a public signing CA and one of them valid now.
readClientCATrust(b) == b # {}

WriteBundle(b) ==
    /\ caWrites < MaxRotations /\ b # caFile /\ caFile' = b /\ caWrites' = caWrites + 1
    /\ UNCHANGED <<trust, tickets, accepted, certVars, tokenVars>>
reloadTrust ==
    /\ readClientCATrust(caFile) /\ caFile # trust /\ trust' = caFile
    /\ UNCHANGED <<caFile, caWrites, tickets, accepted, certVars, tokenVars>>

\* A full handshake is checked against the current roots (GetConfigForClient) and leaves a ticket.
Handshake(r) ==
    /\ r \in trust /\ accepted = "none" /\ accepted' = r /\ tickets' = tickets \cup {r}
    /\ UNCHANGED <<caFile, caWrites, trust, certVars, tokenVars>>

\* VerifyConnection checks a resumed connection against the current roots too.
VerifyConnection(r) ==
    /\ r \in tickets /\ r \in trust /\ accepted = "none" /\ accepted' = r
    /\ UNCHANGED <<caFile, caWrites, trust, tickets, certVars, tokenVars>>
\* A connection ends when its client or its idle timeout ends it, if ever.
Disconnect ==
    /\ accepted # "none" /\ accepted' = "none"
    /\ UNCHANGED <<caFile, caWrites, trust, tickets, certVars, tokenVars>>

-----------------------------------------------------------------------------
RotateToken == tokenFile < MaxRotations /\ tokenFile' \in {0, tokenFile + 1} /\ tokenFile' # tokenFile
               /\ UNCHANGED <<token, tokenDue, certVars, caVars>>
TokenExpires == ~tokenDue /\ tokenDue' = TRUE /\ UNCHANGED <<tokenFile, token, certVars, caVars>>

\* Token: within the interval the cached one; otherwise the file, and the last good token if that fails.
Token ==
    /\ tokenDue /\ tokenDue' = FALSE
    /\ token' = IF tokenFile = 0 THEN token ELSE tokenFile
    /\ UNCHANGED <<tokenFile, certVars, caVars>>

ReloadNext ==
    \/ RotatePair \/ startWatch \/ watchTick \/ readCertFile \/ reloadPair
    \/ \E b \in Bundles : WriteBundle(b)
    \/ \E r \in Roots : Handshake(r) \/ VerifyConnection(r)
    \/ reloadTrust \/ Disconnect \/ RotateToken \/ TokenExpires \/ Token

-----------------------------------------------------------------------------
\* A rotation that the watch can see is served, however the reads interleave with further rotations.
RotationServed == (reloader.pc # "boot" /\ pair # reloader.lastMod) ~> (reloader.served = pair)

\* Once a root has been withdrawn for good, no connection of its clients is accepted any more, neither with a full
\* handshake nor with a ticket from before.  One that is open stays: verification is a matter of the handshake.
WithdrawnRootRefused ==
    \A r \in Roots : <>[](readClientCATrust(caFile) /\ r \notin caFile) => <>[][accepted = "none" => accepted' # r]_caVars

\* A token that was read once is never lost to an unreadable file.
TokenKept == [][token # 0 => token' # 0]_token

=============================================================================
