------------------------------ MODULE Requests ------------------------------
(***************************************************************************)
(* Where a request comes from, as far as the program can tell from its     *)
(* peer and headers (security/origin.ts), and what a role may do from      *)
(* there.  A visitor reaches the app directly, with whatever headers he    *)
(* likes, or through the platform's proxy on this host or the Cloudflare   *)
(* tunnel, which drop his headers and set their own: x-forwarded-for, and  *)
(* cf-ray and cf-connecting-ip.                                            *)
(***************************************************************************)
CONSTANTS
  Addresses,   \* of visitors
  Private,     \* loopback, link-local and private ones: isPrivateIp
  Loopback,    \* the peer when a proxy on this host forwards
  NoAddress    \* a header that is not there

ASSUME AddressAssumption ==
  /\ Private \subseteq Addresses /\ Loopback \in Private /\ NoAddress \notin Addresses

Roles   == {"admin", "finance", "parent"}
Headers == [ray : BOOLEAN, cf : Addresses \cup {NoAddress}, forwarded : Addresses \cup {NoAddress}]

\* A visit and the headers the visitor sends.  Only public addresses come by the tunnel.
Visits ==
  {v \in [address : Addresses, path : {"direct", "proxy", "tunnel"}, sent : Headers] :
     v.path = "tunnel" => v.address \notin Private}

\* What the program sees of it.
Peer(v) == IF v.path = "direct" THEN v.address ELSE Loopback
Seen(v) ==
  IF v.path = "direct" THEN v.sent
  ELSE [ray       |-> v.path = "tunnel",
        cf        |-> IF v.path = "tunnel" THEN v.address ELSE NoAddress,
        forwarded |-> IF v.path = "proxy" THEN v.address ELSE NoAddress]

\* Fault: headers are believed whoever sends them.
ClientIp_HeadersBelieved(h, peer) ==
  IF h.cf # NoAddress THEN h.cf ELSE IF h.forwarded # NoAddress THEN h.forwarded ELSE peer

\* clientIpFrom: headers are believed when the peer is local.
ClientIp(h, peer) ==
  IF peer \notin Private THEN peer
  ELSE IF h.cf # NoAddress THEN h.cf
  ELSE IF h.forwarded # NoAddress THEN h.forwarded
  ELSE peer

\* classifyOriginParts
Classify(h, peer) == IF h.ray \/ ClientIp(h, peer) \notin Private THEN "tunnel" ELSE "lan"

\* A visit as it is classified, and as it really is: the program cannot know.
Arrivals ==
  {[origin |-> Classify(Seen(v), Peer(v)),
    local |-> v.path # "tunnel" /\ v.address \in Private] : v \in Visits}

\* roleAllowedFromOrigin
AllowedFrom(role, origin) == role = "admin" => origin = "lan"

\* Is this an admin who is really not on the local network?
Astray(role, arrival) == role = "admin" /\ ~arrival.local
=============================================================================
