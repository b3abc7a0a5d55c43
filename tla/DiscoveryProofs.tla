--------------------------- MODULE DiscoveryProofs ---------------------------
(***************************************************************************)
(* What SafeFetch and Discovery guarantee for every set of hosts, URLs and *)
(* addresses, for every robots.txt and every sitemap, and for every limit: *)
(* first a call of safeFetch by itself, then the calls of a crawl, and     *)
(* what the walk of the sitemaps has left out when it ends.                *)
(*                                                                         *)
(* Of a crawl nothing is assumed of the URLs that sites write into         *)
(* robots.txt and sitemaps: a connection is vetted because every call      *)
(* starts with its checks, whatever it is called with.                     *)
(***************************************************************************)
EXTENDS Discovery, FiniteSetTheorems, SequenceTheorems, TLAPS

-----------------------------------------------------------------------------
(* Addresses. *)

\* The comparisons of octets in classifyIpv4FromNumber cut out exactly the
\* reserved blocks.
THEOREM PublicV4IsUnreserved ==
    ASSUME NEW a \in Octets, NEW b \in Octets, NEW c \in Octets
    PROVE  PublicV4(a, b, c) <=> ~ReservedV4(a, b, c)
<1> DEFINE In(block) == Within(Network(a, b, c), block)
<1>1. ReservedV4(a, b, c) <=>
        \/ In(Block(0, 0, 0, 65536))
        \/ In(Block(10, 0, 0, 65536))
        \/ In(Block(100, 64, 0, 16384))
        \/ In(Block(127, 0, 0, 65536))
        \/ In(Block(169, 254, 0, 256))
        \/ In(Block(172, 16, 0, 4096))
        \/ In(Block(192, 0, 0, 1))
        \/ In(Block(192, 0, 2, 1))
        \/ In(Block(192, 168, 0, 256))
        \/ In(Block(198, 18, 0, 512))
        \/ In(Block(198, 51, 100, 1))
        \/ In(Block(203, 0, 113, 1))
        \/ In(Block(224, 0, 0, 1048576))
        \/ In(Block(240, 0, 0, 1048576))
  BY DEF ReservedV4, ReservedBlocks
<1>2. In(Block(0, 0, 0, 65536)) <=> a = 0
  BY DEF Within, Block, Network, Octets
<1>3. In(Block(10, 0, 0, 65536)) <=> a = 10
  BY DEF Within, Block, Network, Octets
<1>4. In(Block(100, 64, 0, 16384)) <=> a = 100 /\ b >= 64 /\ b <= 127
  BY DEF Within, Block, Network, Octets
<1>5. In(Block(127, 0, 0, 65536)) <=> a = 127
  BY DEF Within, Block, Network, Octets
<1>6. In(Block(169, 254, 0, 256)) <=> a = 169 /\ b = 254
  BY DEF Within, Block, Network, Octets
<1>7. In(Block(172, 16, 0, 4096)) <=> a = 172 /\ b >= 16 /\ b <= 31
  BY DEF Within, Block, Network, Octets
<1>8. In(Block(192, 0, 0, 1)) <=> a = 192 /\ b = 0 /\ c = 0
  BY DEF Within, Block, Network, Octets
<1>9. In(Block(192, 0, 2, 1)) <=> a = 192 /\ b = 0 /\ c = 2
  BY DEF Within, Block, Network, Octets
<1>10. In(Block(192, 168, 0, 256)) <=> a = 192 /\ b = 168
  BY DEF Within, Block, Network, Octets
<1>11. In(Block(198, 18, 0, 512)) <=> a = 198 /\ b \in {18, 19}
  BY DEF Within, Block, Network, Octets
<1>12. In(Block(198, 51, 100, 1)) <=> a = 198 /\ b = 51 /\ c = 100
  BY DEF Within, Block, Network, Octets
<1>13. In(Block(203, 0, 113, 1)) <=> a = 203 /\ b = 0 /\ c = 113
  BY DEF Within, Block, Network, Octets
<1>14. In(Block(224, 0, 0, 1048576)) <=> a >= 224 /\ a < 240
  BY DEF Within, Block, Network, Octets
<1>15. In(Block(240, 0, 0, 1048576)) <=> a >= 240
  BY DEF Within, Block, Network, Octets
<1> HIDE DEF In
<1> QED
  BY <1>1, <1>2, <1>3, <1>4, <1>5, <1>6, <1>7, <1>8, <1>9, <1>10, <1>11, <1>12, <1>13, <1>14, <1>15
     DEF PublicV4, Octets

\* A group is a number of two octets.
LEMMA HalvesAreOctets ==
    ASSUME NEW g \in Groups
    PROVE  g \in Int /\ g \div 256 \in Octets /\ g % 256 \in Octets
<1>1. g \in Int /\ g >= 0 /\ g <= 65535
  BY DEF Groups
<1> QED
  BY <1>1 DEF Octets

\* An address that the classification calls public is in no reserved block,
\* in whatever form an IPv4 address is wrapped.
LEMMA PublicIsUnreserved ==
    ASSUME NEW address \in V4Addresses \cup V6Addresses, Public(address)
    PROVE  ~Reserved(address)
<1>1. CASE address.version = 4
  <2>1. address \in V4Addresses
    BY <1>1 DEF V4Addresses, V6Addresses
  <2> QED
    BY <1>1, <2>1, PublicV4IsUnreserved DEF Public, Reserved, V4Addresses
<1>2. CASE address.version = 6
  <2> DEFINE p == address.part
  <2>1. p \in [1..8 -> Groups] /\ PublicV6(p)
    BY <1>2 DEF V4Addresses, V6Addresses, Public
  <2>2. \A i \in 1..8 : p[i] \div 256 \in Octets /\ p[i] % 256 \in Octets
    BY <2>1, HalvesAreOctets
  <2>3. CASE Mapped(p)
    <3>1. PublicV4(p[7] \div 256, p[7] % 256, p[8] \div 256)
      BY <2>1, <2>3 DEF PublicV6, PublicEmbedded
    <3>2. ~ReservedV4(p[7] \div 256, p[7] % 256, p[8] \div 256)
      BY <2>1, <2>2, <3>1, PublicV4IsUnreserved
    <3>3. p[1] = 0 /\ p[6] = 65535
      BY <2>3 DEF Mapped
    <3> HIDE DEF p
    <3>4. ~ReservedV6(p)
      BY <3>2, <3>3 DEF ReservedV6
    <3> QED
      BY <1>2, <3>4 DEF Reserved, p
  <2>4. CASE ~Mapped(p)
    <3> SUFFICES ~ReservedV6(p)
      BY <1>2 DEF Reserved
    <3> HIDE DEF p
    <3>1. p[1] \in Groups
      BY <2>1
    <3>2. p[1] \in Int
      BY <3>1, HalvesAreOctets
    <3>3. CASE Nat64(p)
      <4>1. p[1] = 100
        BY <3>3 DEF Nat64
      <4> QED
        BY <2>4, <4>1 DEF ReservedV6, Mapped
    <3>4. CASE ~Nat64(p) /\ p[1] = 8194
      BY <2>4, <3>4 DEF ReservedV6, Mapped
    <3>5. CASE ~Nat64(p) /\ p[1] # 8194
      <4>1. /\ ~(p[1] >= 65152 /\ p[1] < 65216)
            /\ ~(p[1] >= 64512 /\ p[1] < 65024)
            /\ p[1] < 65280
            /\ ~(p[1] = 0 /\ p[2] = 0)
        BY <2>1, <2>4, <3>5 DEF PublicV6
      <4>2. ~(\A i \in 1..7 : p[i] = 0)
        BY <4>1
      <4> QED
        BY <2>4, <3>2, <4>1, <4>2 DEF ReservedV6, Mapped
    <3> QED
      BY <3>3, <3>4, <3>5
  <2> QED
    BY <2>3, <2>4
<1> QED
  BY <1>1, <1>2 DEF V4Addresses, V6Addresses

-----------------------------------------------------------------------------
(* Types. *)

FetchState  == [pc : Pcs, current : Urls, redirects : Nat,
           wire : 0..MaxBody, decoded : 0..MaxBody]
Result == [outcome : Outcomes, initialStatus : Statuses \cup {0},
           finalStatus : Statuses \cup {0}, finalUrl : Urls \cup {NoUrl},
           redirectChain : Seq(Hop), body : 0..MaxBody \cup {NoBody}]

\* A set of addresses that a name may resolve to.
LEMMA ResolvedType ==
    ASSUME NEW h \in Hosts, NEW found \in Resolved(h)
    PROVE  found \subseteq V4Addresses \cup V6Addresses
BY FetchAssumption DEF Resolved

\* Returning an outcome keeps the types.
LEMMA ReturnType ==
    ASSUME TypeOK, NEW outcome \in Outcomes, Return(outcome), UNCHANGED requests
    PROVE  TypeOK'
<1>1. fetch' \in FetchState
  BY DEF TypeOK, Return, Goto, FetchState, Pcs
<1>2. result' \in Result
  BY DEF TypeOK, Return, Result
<1> QED
  BY <1>1, <1>2 DEF TypeOK, FetchState, Result

\* What is recorded of an answer, and a chain with one more hop.
LEMMA RecordedType ==
    ASSUME TypeOK, NEW status \in Statuses
    PROVE  Recorded(status) \in Result
BY DEF TypeOK, Recorded, Result

LEMMA WithHopType ==
    ASSUME TypeOK, NEW status \in Statuses, NEW location \in Urls
    PROVE  WithHop(status, location) \in Result
<1> DEFINE hop == [url |-> fetch.current, status |-> status, location |-> location]
           r   == Recorded(status)
<1>1. r \in Result
  BY RecordedType
<1>2. hop \in Hop
  BY DEF TypeOK, Hop
<1> HIDE DEF hop, r
<1>3. Append(r.redirectChain, hop) \in Seq(Hop)
  BY <1>1, <1>2 DEF Result
<1>4. [r EXCEPT !.redirectChain = Append(@, hop)] \in Result
  BY <1>1, <1>3 DEF Result
<1> QED
  BY <1>4 DEF WithHop, hop, r

LEMMA InitType == Init => TypeOK
<1> SUFFICES ASSUME Init PROVE TypeOK
  OBVIOUS
<1>1. fetch \in FetchState
  BY FetchAssumption DEF Init, FetchState, Pcs
<1>2. result \in Result
  BY DEF Init, Result, Outcomes
<1>3. requests \in Seq(Request)
  BY DEF Init
<1> QED
  BY <1>1, <1>2, <1>3 DEF TypeOK, FetchState, Result

LEMMA NextType == TypeOK /\ [Next]_vars => TypeOK'
<1> SUFFICES ASSUME TypeOK, [Next]_vars PROVE TypeOK'
  OBVIOUS
<1> USE DEF At
<1>1. CASE Check
  <2>1. ASSUME Goto("hop"), UNCHANGED <<result, requests>> PROVE TypeOK'
    BY <2>1 DEF TypeOK, Goto, Pcs
  <2> QED
    BY <1>1, <2>1, ReturnType DEF Check, Outcomes
<1>2. CASE LeaveScope
  <2>1. fetch' \in FetchState
    BY <1>2 DEF LeaveScope, TypeOK, Goto, Pcs, FetchState
  <2>2. result' \in Result
    BY <1>2 DEF LeaveScope, TypeOK, Result, Outcomes
  <2> QED
    BY <1>2, <2>1, <2>2 DEF LeaveScope, TypeOK, FetchState, Result
<1>3. CASE Vet
  <2>1. ASSUME Goto("connect"), UNCHANGED <<result, requests>> PROVE TypeOK'
    BY <2>1 DEF TypeOK, Goto, Pcs
  <2> QED
    BY <1>3, <2>1, ReturnType DEF Vet, Refusal, Outcomes
<1>4. CASE Connect
  <2>1. PICK found \in Resolved(fetch.current.host) :
          \E address \in Pinned(fetch.current.host, found) :
             requests' = Append(requests, [url |-> fetch.current, address |-> address])
    BY <1>4 DEF Connect
  <2>2. PICK address \in Pinned(fetch.current.host, found) :
          requests' = Append(requests, [url |-> fetch.current, address |-> address])
    BY <2>1
  <2>3. fetch.current \in Urls /\ fetch.current.host \in Hosts
    BY FetchAssumption DEF TypeOK
  <2>4. address \in V4Addresses \cup V6Addresses
    BY <2>3, ResolvedType DEF Pinned, Dialable
  <2>5. [url |-> fetch.current, address |-> address] \in Request
    BY <2>3, <2>4 DEF Request
  <2>6. requests' \in Seq(Request)
    BY <2>2, <2>5 DEF TypeOK
  <2> QED
    BY <1>4, <2>6 DEF Connect, TypeOK, Goto, Pcs
<1>5. CASE ConnectRefused
  BY <1>5, ReturnType DEF ConnectRefused, Refusal, Outcomes
<1>6. CASE NoAnswer
  BY <1>6, ReturnType DEF NoAnswer, Failures, Outcomes
<1>7. CASE Redirected
  <2>1. PICK status \in Statuses, location \in Urls :
          \/ RedirectUnsafe(status, location)
          \/ RedirectLimit(status, location)
          \/ Follow(status, location)
    BY <1>7 DEF Redirected
  <2>2. Recorded(status) \in Result /\ WithHop(status, location) \in Result
    BY RecordedType, WithHopType
  <2>3. result' \in Result
    BY <2>1, <2>2 DEF RedirectUnsafe, RedirectLimit, Follow, Result, Outcomes
  <2>4. CASE Goto("done")
    BY <1>7, <2>3, <2>4 DEF Redirected, Goto, TypeOK, Result, Pcs
  <2>5. CASE Follow(status, location)
    <3>1. fetch \in FetchState /\ fetch.redirects + 1 \in Nat
      BY DEF TypeOK, FetchState
    <3>2. fetch' = [fetch EXCEPT !.pc = "hop", !.current = location,
                                 !.redirects = fetch.redirects + 1]
      BY <2>5, <3>1 DEF Follow, FetchState
    <3>3. fetch' \in FetchState
      BY <3>1, <3>2 DEF FetchState, Pcs
    <3> QED
      BY <1>7, <2>3, <3>3 DEF Redirected, TypeOK, FetchState, Result
  <2> QED
    BY <2>1, <2>4, <2>5 DEF RedirectUnsafe, RedirectLimit
<1>8. CASE Answered
  <2>1. result' \in Result
    BY <1>8, RecordedType DEF Answered
  <2>2. fetch' \in FetchState
    BY <1>8 DEF Answered, Goto, TypeOK, FetchState, Pcs
  <2> QED
    BY <1>8, <2>1, <2>2 DEF Answered, TypeOK, FetchState, Result
<1>9. CASE ReadChunk
  <2>1. PICK bytes \in 1..MaxChunk, unpacked \in 0..MaxChunk :
          LET wire    == Total(fetch.wire, bytes)
              decoded == Total(fetch.decoded, unpacked)
          IN  IF TooLarge(wire) \/ TooLarge(decoded) THEN Return("BODY_TOO_LARGE")
              ELSE /\ fetch' = [fetch EXCEPT !.wire = wire, !.decoded = decoded]
                   /\ UNCHANGED result
    BY <1>9 DEF ReadChunk
  <2> DEFINE wire == Total(fetch.wire, bytes)
             decoded == Total(fetch.decoded, unpacked)
  <2>2. wire \in Nat /\ decoded \in Nat
    BY FetchAssumption DEF Total, TypeOK
  <2>3. UNCHANGED requests
    BY <1>9 DEF ReadChunk
  <2> HIDE DEF wire, decoded
  <2>4. CASE TooLarge(wire) \/ TooLarge(decoded)
    BY <2>1, <2>3, <2>4, ReturnType DEF Outcomes, wire, decoded
  <2>5. CASE ~(TooLarge(wire) \/ TooLarge(decoded))
    <3>1. /\ fetch' = [fetch EXCEPT !.wire = wire, !.decoded = decoded]
          /\ UNCHANGED result
      BY <2>1, <2>5 DEF wire, decoded
    <3>2. wire \in 0..MaxBody /\ decoded \in 0..MaxBody
      BY <2>2, <2>5, FetchAssumption DEF TooLarge
    <3> QED
      BY <2>3, <3>1, <3>2 DEF TypeOK
  <2> QED
    BY <2>4, <2>5
<1>10. CASE EndOfBody
  <2>1. result' \in Result
    BY <1>10 DEF EndOfBody, TypeOK, Result, Outcomes
  <2>2. fetch' \in FetchState
    BY <1>10 DEF EndOfBody, Goto, TypeOK, FetchState, Pcs
  <2> QED
    BY <1>10, <2>1, <2>2 DEF EndOfBody, TypeOK, FetchState, Result
<1>11. CASE ReadFails
  BY <1>11, ReturnType DEF ReadFails, Failures, Outcomes
<1>12. CASE UNCHANGED vars
  BY <1>12 DEF TypeOK, vars
<1> QED
  BY <1>1, <1>2, <1>3, <1>4, <1>5, <1>6, <1>7, <1>8, <1>9, <1>10, <1>11, <1>12 DEF Next

\* The types hold in every behaviour.
THEOREM TypeCorrect == Spec => []TypeOK
<1>1. Init => TypeOK
  BY InitType
<1>2. TypeOK /\ [Next]_vars => TypeOK'
  BY NextType
<1> QED
  BY <1>1, <1>2, PTL DEF Spec

-----------------------------------------------------------------------------
(* Every connection of a call is vetted. *)

\* Wherever the call is, what it has established about the current URL: past
\* the first check the URL is safe, past the vetting it is in scope as well.
VettedInv ==
    /\ RequestsAreVetted
    /\ fetch.pc \in {"hop", "connect", "answer", "read"} => SafeUrl(fetch.current)
    /\ fetch.pc \in {"connect", "answer", "read"} => fetch.current.host = Scope

\* A socket is pinned to public addresses only: the lookup answers with no
\* other, and a literal was classified with its URL.
LEMMA PinnedIsPublic ==
    ASSUME NEW u \in Urls, SafeUrl(u), NEW found \in Resolved(u.host),
           NEW address \in Pinned(u.host, found)
    PROVE  /\ address \in V4Addresses \cup V6Addresses
           /\ ~Reserved(address)
<1>1. u.host \in Hosts
  BY FetchAssumption
<1>2. address \in V4Addresses \cup V6Addresses
  BY <1>1, ResolvedType DEF Pinned, Dialable
<1>3. Public(address)
  <2>1. CASE LiteralOf[u.host] = NoAddress
    BY <2>1 DEF Pinned, Dialable
  <2>2. CASE LiteralOf[u.host] # NoAddress
    BY <2>2 DEF Pinned, Resolved, SafeUrl
  <2> QED
    BY <2>1, <2>2
<1> QED
  BY <1>2, <1>3, PublicIsUnreserved

LEMMA NextVetted == TypeOK /\ VettedInv /\ [Next]_vars => VettedInv'
<1> SUFFICES ASSUME TypeOK, VettedInv, [Next]_vars PROVE VettedInv'
  OBVIOUS
<1>1. CASE Connect
  <2>1. PICK found \in Resolved(fetch.current.host) :
          \E address \in Pinned(fetch.current.host, found) :
             requests' = Append(requests, [url |-> fetch.current, address |-> address])
    BY <1>1 DEF Connect
  <2>2. PICK address \in Pinned(fetch.current.host, found) :
          requests' = Append(requests, [url |-> fetch.current, address |-> address])
    BY <2>1
  <2>3. fetch.current \in Urls /\ SafeUrl(fetch.current) /\ fetch.current.host = Scope
    BY <1>1 DEF Connect, At, VettedInv, TypeOK
  <2>4. ~Reserved(address)
    BY <2>3, PinnedIsPublic
  <2>5. RequestsAreVetted'
    BY <2>2, <2>3, <2>4 DEF RequestsAreVetted, VettedInv, TypeOK
  <2>6. fetch' = [fetch EXCEPT !.pc = "answer"]
    BY <1>1 DEF Connect, Goto
  <2> QED
    BY <2>3, <2>5, <2>6 DEF VettedInv, TypeOK, SafeUrl
<1>2. CASE Redirected
  <2>1. RequestsAreVetted'
    BY <1>2 DEF Redirected, VettedInv, RequestsAreVetted
  <2>2. CASE Goto("done")
    BY <2>1, <2>2 DEF VettedInv, Goto, TypeOK
  <2>3. ASSUME NEW status \in Statuses, NEW location \in Urls, Follow(status, location)
        PROVE  VettedInv'
    BY <2>1, <2>3 DEF VettedInv, Follow, TypeOK, SafeUrl
  <2> QED
    BY <1>2, <2>2, <2>3 DEF Redirected, RedirectUnsafe, RedirectLimit
<1>3. CASE Check \/ LeaveScope \/ Vet \/ ConnectRefused \/ NoAnswer \/ Answered
           \/ ReadChunk \/ EndOfBody \/ ReadFails
  <2>1. RequestsAreVetted'
    BY <1>3 DEF Check, LeaveScope, Vet, ConnectRefused, NoAnswer, Answered, ReadChunk,
                EndOfBody, ReadFails, VettedInv, RequestsAreVetted
  <2>2. /\ fetch'.current = fetch.current
        /\ \/ fetch'.pc \in {fetch.pc, "done"}
           \/ fetch.pc = "check" /\ SafeUrl(fetch.current) /\ fetch'.pc = "hop"
           \/ fetch.pc = "hop" /\ fetch.current.host = Scope /\ fetch'.pc = "connect"
           \/ fetch.pc = "answer" /\ fetch'.pc = "read"
    BY <1>3 DEF Check, LeaveScope, Vet, ConnectRefused, NoAnswer, Answered, ReadChunk,
                EndOfBody, ReadFails, At, Goto, Return, TypeOK
  <2> QED
    BY <2>1, <2>2 DEF VettedInv, SafeUrl
<1>4. CASE UNCHANGED vars
  BY <1>4 DEF vars, VettedInv, RequestsAreVetted, SafeUrl
<1> QED
  BY <1>1, <1>2, <1>3, <1>4 DEF Next

\* No connection is ever made outside the project's host or into a reserved
\* block, whatever DNS answers and wherever redirects lead.
THEOREM RequestsAlwaysVetted == Spec => []RequestsAreVetted
<1>1. Init => VettedInv
  BY DEF Init, VettedInv, RequestsAreVetted
<1>2. TypeOK /\ VettedInv /\ [Next]_vars => VettedInv'
  BY NextVetted
<1>3. VettedInv => RequestsAreVetted
  BY DEF VettedInv
<1> QED
  BY <1>1, <1>2, <1>3, TypeCorrect, PTL DEF Spec

-----------------------------------------------------------------------------
(* The result tells what happened on the wire. *)

\* The chain of hops and the requests, while the call runs: they grow in turn,
\* a request for the current URL, then the hop that its answer adds.
Running ==
    LET chain == result.redirectChain
        last  == Len(requests)
    IN  /\ result.body = NoBody
        /\ fetch.redirects = Len(chain) /\ Len(chain) <= MaxRedirects
        /\ fetch.pc \in {"check", "hop", "connect"} => last = Len(chain)
        /\ fetch.pc = "check" => chain = <<>>
        /\ fetch.pc = "hop" /\ fetch.current.host # Scope => chain # <<>>
        /\ fetch.pc \in {"hop", "connect"} /\ chain # <<>> =>
              fetch.current = chain[Len(chain)].location
        /\ fetch.pc \in {"answer", "read"} =>
              last = Len(chain) + 1 /\ requests[last].url = fetch.current
        /\ fetch.pc = "read" => result.finalUrl = fetch.current

ChainInv == ResultTellsTheRequests /\ (fetch.pc # "done" => Running)

\* A call that returns without a new hop or request tells what it told before.
LEMMA ReturnTells ==
    ASSUME TypeOK, ChainInv, fetch.pc # "done", UNCHANGED requests, fetch'.pc = "done",
           result'.redirectChain = result.redirectChain, result'.body = NoBody,
           result'.outcome \notin {"HTTP_RESPONSE", "REDIRECT_LIMIT", "REDIRECT_BLOCKED"}
    PROVE  ChainInv'
BY DEF ChainInv, ResultTellsTheRequests, Running, At

\* The same for a step within the call.
LEMMA GoOnTells ==
    ASSUME TypeOK, ChainInv, fetch.pc # "done", fetch'.pc # "done", UNCHANGED requests,
           result'.redirectChain = result.redirectChain, result'.body = result.body
    PROVE  ResultTellsTheRequests'
BY DEF ChainInv, ResultTellsTheRequests, Running, At

LEMMA NextTells == TypeOK /\ ChainInv /\ [Next]_vars => ChainInv'
<1> SUFFICES ASSUME TypeOK, ChainInv, [Next]_vars PROVE ChainInv'
  OBVIOUS
<1> USE DEF At
<1>0. \A outcome \in Outcomes \ {"HTTP_RESPONSE", "REDIRECT_LIMIT", "REDIRECT_BLOCKED"} :
         fetch.pc # "done" /\ Return(outcome) /\ UNCHANGED requests => ChainInv'
  <2> SUFFICES ASSUME NEW outcome \in Outcomes \ {"HTTP_RESPONSE", "REDIRECT_LIMIT",
                                                 "REDIRECT_BLOCKED"},
                      fetch.pc # "done", Return(outcome), UNCHANGED requests
               PROVE  ChainInv'
    OBVIOUS
  <2>1. /\ fetch'.pc = "done" /\ result'.outcome = outcome
        /\ result'.redirectChain = result.redirectChain
        /\ result'.body = NoBody
    BY DEF Return, Goto, TypeOK, ChainInv, Running
  <2> QED
    BY <2>1, ReturnTells
<1>1. CASE Check
  <2>1. ASSUME ~(~SafeUrl(fetch.current) \/ fetch.current.long), fetch.current.host = Scope
        PROVE  ChainInv'
    <3>1. fetch' = [fetch EXCEPT !.pc = "hop"] /\ UNCHANGED <<result, requests>>
      BY <1>1, <2>1 DEF Check, Goto
    <3>2. ResultTellsTheRequests'
      BY <1>1, <3>1, GoOnTells DEF Check, TypeOK
    <3> QED
      BY <1>1, <2>1, <3>1, <3>2 DEF Check, ChainInv, Running, TypeOK
  <2> QED
    BY <1>1, <1>0, <2>1 DEF Check, Outcomes
<1>2. CASE LeaveScope
  <2>1. /\ fetch'.pc = "done" /\ UNCHANGED requests
        /\ result' = [result EXCEPT !.outcome = "REDIRECT_BLOCKED", !.finalUrl = NoUrl]
    BY <1>2 DEF LeaveScope, Goto, TypeOK
  <2>2. /\ result.redirectChain # <<>>
        /\ result.redirectChain[Len(result.redirectChain)].location.host # Scope
    BY <1>2 DEF LeaveScope, ChainInv, Running
  <2> QED
    BY <1>2, <2>1, <2>2 DEF LeaveScope, ChainInv, ResultTellsTheRequests, Running, TypeOK
<1>3. CASE Vet
  <2>1. ASSUME Goto("connect"), UNCHANGED <<result, requests>>, fetch.pc = "hop"
        PROVE  ChainInv'
    <3>1. fetch' = [fetch EXCEPT !.pc = "connect"]
      BY <2>1 DEF Goto
    <3>2. ResultTellsTheRequests'
      BY <2>1, <3>1, GoOnTells DEF TypeOK
    <3> QED
      BY <2>1, <3>1, <3>2 DEF ChainInv, Running, TypeOK
  <2> QED
    BY <1>3, <1>0, <2>1 DEF Vet, Refusal, Outcomes
<1>4. CASE Connect
  <2>1. PICK request : request.url = fetch.current /\ requests' = Append(requests, request)
    BY <1>4 DEF Connect
  <2>2. fetch' = [fetch EXCEPT !.pc = "answer"] /\ UNCHANGED result
    BY <1>4 DEF Connect, Goto
  <2> DEFINE chain == result.redirectChain
             last  == Len(requests)
  <2>3. /\ last = Len(chain) /\ last \in Nat /\ Len(chain) <= MaxRedirects
        /\ last # 0 => fetch.current = chain[last].location
    BY <1>4 DEF Connect, ChainInv, Running, TypeOK
  <2>4. /\ Len(requests') = last + 1
        /\ requests'[last + 1] = request
        /\ \A i \in 1..last : requests'[i] = requests[i]
    BY <2>1 DEF TypeOK
  <2>5. \A i \in 2..(last + 1) : requests'[i].url = chain[i - 1].location
    <3>1. \A i \in 2..last : requests[i].url = chain[i - 1].location
      BY DEF ChainInv, ResultTellsTheRequests
    <3>2. last + 1 \in 2..(last + 1) => requests'[last + 1].url = chain[last + 1 - 1].location
      BY <2>1, <2>3, <2>4
    <3> QED
      BY <2>3, <2>4, <3>1, <3>2
  <2>6. \A i \in 1..Len(chain) : chain[i].url = requests'[i].url
    BY <2>3, <2>4 DEF ChainInv, ResultTellsTheRequests
  <2>7. ResultTellsTheRequests'
    BY <1>4, <2>2, <2>3, <2>4, <2>5, <2>6, FetchAssumption
       DEF ResultTellsTheRequests, ChainInv, Running, TypeOK, Connect
  <2>8. Running'
    BY <1>4, <2>1, <2>2, <2>3, <2>4 DEF Running, ChainInv, TypeOK, Connect
  <2> QED
    BY <2>7, <2>8 DEF ChainInv
<1>5. CASE ConnectRefused
  BY <1>5, <1>0 DEF ConnectRefused, Refusal, Outcomes
<1>6. CASE NoAnswer
  BY <1>6, <1>0 DEF NoAnswer, Failures, Outcomes
<1>7. CASE Redirected
  <2> DEFINE chain == result.redirectChain
             last  == Len(requests)
  <2>1. PICK status \in Statuses, location \in Urls :
          \/ RedirectUnsafe(status, location)
          \/ RedirectLimit(status, location)
          \/ Follow(status, location)
    BY <1>7 DEF Redirected
  <2>2. /\ fetch.pc = "answer" /\ UNCHANGED requests
        /\ last = Len(chain) + 1 /\ requests[last].url = fetch.current
        /\ last \in Nat /\ Len(chain) \in Nat
        /\ Len(chain) <= MaxRedirects /\ fetch.redirects = Len(chain)
        /\ result.body = NoBody
    BY <1>7 DEF Redirected, ChainInv, Running, TypeOK
  <2>3. CASE RedirectUnsafe(status, location)
    <3>1. /\ fetch'.pc = "done" /\ result'.outcome = "SECURITY_BLOCKED"
          /\ result'.redirectChain = chain /\ result'.body = NoBody
      BY <2>2, <2>3 DEF RedirectUnsafe, Recorded, Goto, TypeOK
    <3> QED
      BY <2>2, <3>1, ReturnTells
  <2>4. ASSUME result'.redirectChain
                 = Append(chain, [url |-> fetch.current, status |-> status,
                                  location |-> location])
        PROVE  /\ Len(result'.redirectChain) = last
               /\ result'.redirectChain[last].location = location
               /\ \A n \in 1..last : result'.redirectChain[n].url = requests'[n].url
               /\ \A n \in 2..last :
                    requests'[n].url = result'.redirectChain[n - 1].location
    <3> DEFINE hop == [url |-> fetch.current, status |-> status, location |-> location]
    <3>1. hop.url = fetch.current /\ hop.location = location
      OBVIOUS
    <3> HIDE DEF hop
    <3>2. result'.redirectChain = Append(chain, hop)
      BY <2>4 DEF hop
    <3>3. /\ Len(result'.redirectChain) = last
          /\ result'.redirectChain[last] = hop
          /\ \A n \in 1..Len(chain) : result'.redirectChain[n] = chain[n]
      BY <2>2, <3>2 DEF TypeOK
    <3>4. /\ \A n \in 1..Len(chain) : chain[n].url = requests[n].url
          /\ \A n \in 2..last : requests[n].url = chain[n - 1].location
      BY DEF ChainInv, ResultTellsTheRequests
    <3>5. result'.redirectChain[last].location = location
      BY <3>1, <3>3
    <3>6. ASSUME NEW n \in 1..last
          PROVE  result'.redirectChain[n].url = requests'[n].url
      <4>1. CASE n = last
        BY <2>2, <3>1, <3>3, <4>1
      <4>2. CASE n \in 1..Len(chain)
        BY <2>2, <3>3, <3>4, <4>2
      <4> QED
        BY <2>2, <4>1, <4>2
    <3>7. ASSUME NEW n \in 2..last
          PROVE  requests'[n].url = result'.redirectChain[n - 1].location
      <4>1. n - 1 \in 1..Len(chain)
        BY <2>2
      <4> QED
        BY <2>2, <3>3, <3>4, <4>1
    <3> QED
      BY <3>3, <3>5, <3>6, <3>7
  <2>5. WithHop(status, location).redirectChain
          = Append(chain, [url |-> fetch.current, status |-> status, location |-> location])
    BY DEF WithHop, Recorded, TypeOK
  <2>6. CASE RedirectLimit(status, location)
    <3>1. /\ fetch'.pc = "done" /\ result'.outcome = "REDIRECT_LIMIT"
          /\ result'.redirectChain = WithHop(status, location).redirectChain
          /\ result'.body = NoBody
      BY <2>2, <2>6 DEF RedirectLimit, WithHop, Recorded, Goto, TypeOK
    <3>2. Len(chain) = MaxRedirects
      BY <2>2, <2>6, FetchAssumption DEF RedirectLimit, MayFollow
    <3> QED
      BY <2>2, <2>4, <2>5, <3>1, <3>2, FetchAssumption
         DEF ChainInv, ResultTellsTheRequests
  <2>7. CASE Follow(status, location)
    <3>1. /\ fetch'.pc = "hop" /\ fetch'.current = location
          /\ fetch'.redirects = fetch.redirects + 1
          /\ result'.redirectChain = WithHop(status, location).redirectChain
          /\ result'.body = NoBody
      BY <2>2, <2>7 DEF Follow, WithHop, Recorded, TypeOK
    <3>2. Len(chain) + 1 <= MaxRedirects
      BY <2>2, <2>7, FetchAssumption DEF Follow, MayFollow
    <3>3. result'.redirectChain # <<>>
      BY <2>2, <2>4, <2>5, <3>1
    <3>4. Running'
      BY <2>2, <2>4, <2>5, <3>1, <3>2, <3>3 DEF Running
    <3>5. ResultTellsTheRequests'
      <4>1. /\ Len(result'.redirectChain) = Len(requests') /\ Len(requests') \in Nat
            /\ Len(requests') <= MaxRedirects /\ MaxRedirects \in Nat
            /\ \A n \in 1..Len(requests') : result'.redirectChain[n].url = requests'[n].url
            /\ \A n \in 2..Len(requests') :
                 requests'[n].url = result'.redirectChain[n - 1].location
        BY <2>2, <2>4, <2>5, <3>1, <3>2, FetchAssumption
      <4> HIDE DEF chain, last
      <4> QED
        BY <3>1, <4>1 DEF ResultTellsTheRequests
    <3> QED
      BY <3>4, <3>5 DEF ChainInv
  <2> QED
    BY <2>1, <2>3, <2>6, <2>7
<1>8. CASE Answered
  <2>1. /\ fetch.pc = "answer" /\ fetch' = [fetch EXCEPT !.pc = "read"]
        /\ UNCHANGED requests /\ result'.redirectChain = result.redirectChain
        /\ result'.body = result.body /\ result'.finalUrl = fetch.current
    BY <1>8 DEF Answered, Recorded, Goto, TypeOK
  <2>2. ResultTellsTheRequests'
    BY <2>1, GoOnTells DEF TypeOK
  <2> QED
    BY <2>1, <2>2 DEF ChainInv, Running, TypeOK
<1>9. CASE ReadChunk
  <2>1. /\ fetch.pc = "read" /\ UNCHANGED requests
        /\ \/ Return("BODY_TOO_LARGE")
           \/ /\ fetch'.pc = "read" /\ fetch'.current = fetch.current
              /\ fetch'.redirects = fetch.redirects /\ UNCHANGED result
    BY <1>9 DEF ReadChunk, TypeOK
  <2>2. ASSUME fetch'.pc = "read", fetch'.current = fetch.current,
               fetch'.redirects = fetch.redirects, UNCHANGED result
        PROVE  ChainInv'
    <3>1. ResultTellsTheRequests'
      BY <2>1, <2>2, GoOnTells
    <3> QED
      BY <2>1, <2>2, <3>1 DEF ChainInv, Running
  <2> QED
    BY <2>1, <2>2, <1>0 DEF Outcomes
<1>10. CASE EndOfBody
  <2>1. /\ fetch.pc = "read" /\ fetch'.pc = "done" /\ UNCHANGED requests
        /\ result' = [result EXCEPT !.outcome = "HTTP_RESPONSE", !.body = fetch.decoded]
    BY <1>10 DEF EndOfBody, Goto, TypeOK
  <2>2. /\ result'.redirectChain = result.redirectChain /\ result'.finalUrl = result.finalUrl
        /\ result'.outcome = "HTTP_RESPONSE" /\ result'.body = fetch.decoded
        /\ fetch.decoded \in 0..MaxBody /\ fetch.decoded # NoBody
    BY <2>1, FetchAssumption DEF TypeOK, NoBody
  <2> QED
    BY <2>1, <2>2, FetchAssumption DEF ChainInv, ResultTellsTheRequests, Running
<1>11. CASE ReadFails
  BY <1>11, <1>0 DEF ReadFails, Failures, Outcomes
<1>12. CASE UNCHANGED vars
  BY <1>12 DEF vars, ChainInv, ResultTellsTheRequests, Running
<1> QED
  BY <1>1, <1>2, <1>3, <1>4, <1>5, <1>6, <1>7, <1>8, <1>9, <1>10, <1>11, <1>12 DEF Next

\* In every behaviour the result tells the requests that were made.
THEOREM ResultAlwaysTellsTheRequests == Spec => []ResultTellsTheRequests
<1>1. Init => ChainInv
  BY FetchAssumption DEF Init, ChainInv, ResultTellsTheRequests, Running, At
<1>2. TypeOK /\ ChainInv /\ [Next]_vars => ChainInv'
  BY NextTells
<1>3. ChainInv => ResultTellsTheRequests
  BY DEF ChainInv
<1> QED
  BY <1>1, <1>2, <1>3, TypeCorrect, PTL DEF Spec

-----------------------------------------------------------------------------
(* Every connection of a crawl is vetted. *)

\* A call has its five fields.
IsCall(f) == f \in [pc : Pcs, current : {f.current}, redirects : {f.redirects},
                    wire : {f.wire}, decoded : {f.decoded}]

\* The connections are a sequence.
IsList(q) == q \in Seq({q[i] : i \in DOMAIN q})

\* What a call has established about its URL, whatever URL that is.
CallInv == IsCall(fetch) /\ IsList(requests) /\ VettedInv

\* The socket is pinned to public addresses for the host of the project.
LEMMA ScopeIsPinned ==
    ASSUME NEW u, u.host = Scope, SafeUrl(u), NEW found \in Resolved(u.host),
           NEW address \in Pinned(u.host, found)
    PROVE  ~Reserved(address)
<1>1. u.host \in Hosts
  BY FetchAssumption
<1>2. address \in V4Addresses \cup V6Addresses
  BY <1>1, ResolvedType DEF Pinned, Dialable
<1>3. Public(address)
  <2>1. CASE LiteralOf[u.host] = NoAddress
    BY <2>1 DEF Pinned, Dialable
  <2>2. CASE LiteralOf[u.host] # NoAddress
    BY <2>2 DEF Pinned, Resolved, SafeUrl
  <2> QED
    BY <2>1, <2>2
<1> QED
  BY <1>2, <1>3, PublicIsUnreserved

\* A call begins with its checks before it and no connections behind it.
LEMMA CallBegins ==
    ASSUME NEW url, fetch' = Calling("check", url) \/ fetch' = Calling("done", url), requests' = <<>>
    PROVE  CallInv'
<1>1. IsCall(fetch')
  BY DEF Calling, IsCall, Pcs
<1>2. fetch'.pc \in {"check", "done"}
  BY DEF Calling
<1>3. IsList(requests') /\ RequestsAreVetted'
  BY DEF IsList, RequestsAreVetted
<1> QED  BY <1>1, <1>2, <1>3 DEF CallInv, VettedInv

\* A step of a call that opens no connection.
LEMMA QuietStep ==
    ASSUME CallInv, requests' = requests, IsCall(fetch'),
           \/ fetch'.current = fetch.current /\
              \/ fetch'.pc \in {fetch.pc, "done"}
              \/ fetch.pc = "check" /\ SafeUrl(fetch.current) /\ fetch'.pc = "hop"
              \/ fetch.pc = "hop" /\ fetch.current.host = Scope /\ fetch'.pc = "connect"
              \/ fetch.pc = "answer" /\ fetch'.pc = "read"
           \/ SafeUrl(fetch'.current) /\ fetch'.pc = "hop"
    PROVE  CallInv'
<1>1. IsList(requests') /\ RequestsAreVetted'
  BY DEF CallInv, VettedInv, IsList, RequestsAreVetted
<1>2. fetch'.current = fetch.current => (SafeUrl(fetch'.current) <=> SafeUrl(fetch.current))
  OBVIOUS
<1> QED  BY <1>1, <1>2 DEF CallInv, VettedInv

\* What the steps of a call do to its record.
LEMMA CallMoves ==
    ASSUME IsCall(fetch)
    PROVE  /\ \A pc \in Pcs : Goto(pc) =>
                 IsCall(fetch') /\ fetch'.pc = pc /\ fetch'.current = fetch.current
           /\ \A location, n : fetch' = [fetch EXCEPT !.pc = "hop", !.current = location, !.redirects = n]
                 => IsCall(fetch') /\ fetch'.pc = "hop" /\ fetch'.current = location
           /\ \A n, m : fetch' = [fetch EXCEPT !.wire = n, !.decoded = m]
                 => IsCall(fetch') /\ fetch'.pc = fetch.pc /\ fetch'.current = fetch.current
  BY DEF IsCall, Goto, Pcs
LEMMA ConnectVetted == CallInv /\ Connect => CallInv'
<1> SUFFICES ASSUME CallInv, Connect PROVE CallInv'
  OBVIOUS
<1>1. PICK found \in Resolved(fetch.current.host) :
        \E address \in Pinned(fetch.current.host, found) :
           requests' = Append(requests, [url |-> fetch.current, address |-> address])
  BY DEF Connect
<1>2. PICK address \in Pinned(fetch.current.host, found) :
        requests' = Append(requests, [url |-> fetch.current, address |-> address])
  BY <1>1
<1>3. SafeUrl(fetch.current) /\ fetch.current.host = Scope
  BY DEF Connect, At, CallInv, VettedInv
<1>4. ~Reserved(address)
  BY <1>3, ScopeIsPinned
<1> DEFINE r == [url |-> fetch.current, address |-> address]
           n == Len(requests)
           All == {requests[i] : i \in DOMAIN requests} \cup {r}
<1>5. r.url = fetch.current /\ r.address = address
  OBVIOUS
<1>6. requests \in Seq({requests[i] : i \in DOMAIN requests})
  BY DEF CallInv, IsList
<1> HIDE DEF r
<1>7. /\ requests' = Append(requests, r) /\ n \in Nat /\ DOMAIN requests = 1..n
      /\ DOMAIN requests' = 1..(n + 1) /\ requests'[n + 1] = r
      /\ \A i \in 1..n : requests'[i] = requests[i]
  BY <1>2, <1>6 DEF r
<1>8. IsList(requests')
  <2>1. requests' \in Seq(All)
    BY <1>6, <1>7
  <2>2. \A i \in DOMAIN requests' : requests'[i] \in {requests'[j] : j \in DOMAIN requests'}
    OBVIOUS
  <2>3. DOMAIN requests' = 1..Len(requests')
    BY <2>1
  <2> HIDE DEF All
  <2>4. requests' \in Seq({requests'[j] : j \in DOMAIN requests'})
    BY <2>1, <2>2, <2>3
  <2> QED  BY <2>4 DEF IsList
<1>9. RequestsAreVetted'
  <2>1. SUFFICES ASSUME NEW i \in 1..(n + 1)
                 PROVE  /\ requests'[i].url.host = Scope /\ SafeUrl(requests'[i].url)
                        /\ ~Reserved(requests'[i].address)
    BY <1>7 DEF RequestsAreVetted, SafeUrl
  <2>2. CASE i = n + 1
    BY <1>3, <1>4, <1>5, <1>7, <2>2
  <2>3. CASE i \in 1..n
    BY <1>7, <2>3 DEF CallInv, VettedInv, RequestsAreVetted
  <2> QED  BY <1>7, <2>1, <2>2, <2>3
<1>10. IsCall(fetch') /\ fetch'.pc = "answer" /\ fetch'.current = fetch.current
  BY CallMoves DEF CallInv, Connect, Pcs
<1>11. SafeUrl(fetch'.current) /\ fetch'.current.host = Scope
  BY <1>3, <1>10
<1> QED  BY <1>8, <1>9, <1>10, <1>11 DEF CallInv, VettedInv

\* A call that runs keeps what it has established.
LEMMA CallKeeps == CallInv /\ [Next]_vars => CallInv'
<1> SUFFICES ASSUME CallInv, [Next]_vars PROVE CallInv'
  OBVIOUS
<1> USE DEF At
<1>1. \A o : Return(o) => IsCall(fetch') /\ fetch'.pc = "done" /\ fetch'.current = fetch.current
  BY CallMoves DEF Return, CallInv, Pcs
<1>2. ASSUME NEW o, Return(o), UNCHANGED requests PROVE CallInv'
  BY <1>1, <1>2, QuietStep
<1>3. CASE Check
  <2>1. CASE Goto("hop") /\ SafeUrl(fetch.current) /\ fetch.pc = "check"
    BY <1>3, <2>1, CallMoves, QuietStep DEF CallInv, Pcs, Check
  <2> QED  BY <1>2, <1>3, <2>1 DEF Check
<1>4. CASE LeaveScope
  BY <1>4, CallMoves, QuietStep DEF LeaveScope, CallInv, Pcs
<1>5. CASE Vet
  <2>1. CASE Goto("connect") /\ fetch.pc = "hop" /\ fetch.current.host = Scope
    BY <1>5, <2>1, CallMoves, QuietStep DEF CallInv, Pcs, Vet
  <2> QED  BY <1>2, <1>5, <2>1 DEF Vet
<1>6. CASE ConnectRefused \/ NoAnswer \/ ReadFails
  BY <1>2, <1>6 DEF ConnectRefused, NoAnswer, ReadFails
<1>7. CASE Redirected
  <2>1. PICK status \in Statuses, location \in Urls :
          \/ RedirectUnsafe(status, location)
          \/ RedirectLimit(status, location)
          \/ Follow(status, location)
    BY <1>7 DEF Redirected
  <2>2. UNCHANGED requests
    BY <1>7 DEF Redirected
  <2>3. CASE Goto("done")
    BY <2>2, <2>3, CallMoves, QuietStep DEF CallInv, Pcs
  <2>4. CASE Follow(status, location)
    <3>1. /\ SafeUrl(location)
          /\ fetch' = [fetch EXCEPT !.pc = "hop", !.current = location,
                                    !.redirects = fetch.redirects + 1]
      BY <2>4 DEF Follow, CallInv, IsCall
    <3>2. IsCall(fetch') /\ fetch'.pc = "hop" /\ fetch'.current = location
      BY <3>1, CallMoves DEF CallInv
    <3>3. SafeUrl(fetch'.current)
      BY <3>1, <3>2
    <3> QED  BY <2>2, <3>2, <3>3, QuietStep
  <2> QED  BY <2>1, <2>3, <2>4 DEF RedirectUnsafe, RedirectLimit
<1>8. CASE Answered
  <2>1. IsCall(fetch') /\ fetch'.pc = "read" /\ fetch'.current = fetch.current /\ fetch.pc = "answer"
    BY <1>8, CallMoves DEF Answered, CallInv, Pcs
  <2> QED  BY <1>8, <2>1, QuietStep DEF Answered
<1>9. CASE ReadChunk
  <2>1. /\ UNCHANGED requests
        /\ \/ Return("BODY_TOO_LARGE")
           \/ \E n, m : fetch' = [fetch EXCEPT !.wire = n, !.decoded = m]
    BY <1>9 DEF ReadChunk
  <2>2. CASE \E n, m : fetch' = [fetch EXCEPT !.wire = n, !.decoded = m]
    BY <2>1, <2>2, CallMoves, QuietStep DEF CallInv
  <2> QED  BY <1>2, <2>1, <2>2
<1>10. CASE EndOfBody
  BY <1>10, CallMoves, QuietStep DEF EndOfBody, CallInv, Pcs
<1>11. CASE UNCHANGED vars
  BY <1>11, QuietStep DEF vars, CallInv
<1> QED
  BY <1>3, <1>4, <1>5, <1>6, <1>7, <1>8, <1>9, <1>10, <1>11, ConnectVetted DEF Next

\* Whatever robots.txt and the sitemaps name, every connection of the crawl's beginning is
\* made for a safe URL of the project's host and to an address outside all reserved blocks.
THEOREM WalkIsVetted == DiscoverySpec => []RequestsAreVetted
<1>1. DiscoveryInit => CallInv
  <2> SUFFICES ASSUME DiscoveryInit PROVE CallInv
    OBVIOUS
  <2>1. fetch = Calling("done", RobotsAt["https"]) /\ requests = <<>>
    BY DEF DiscoveryInit, Idle
  <2>2. IsCall(fetch) /\ fetch.pc = "done"
    BY <2>1 DEF Calling, IsCall, Pcs
  <2>3. IsList(requests) /\ RequestsAreVetted
    BY <2>1 DEF IsList, RequestsAreVetted
  <2> QED  BY <2>2, <2>3 DEF CallInv, VettedInv
<1>2. CallInv /\ [DiscoveryNext]_<<discovery, vars>> => CallInv'
  <2> SUFFICES ASSUME CallInv, [DiscoveryNext]_<<discovery, vars>> PROVE CallInv'
    OBVIOUS
  <2>1. CASE AskRobots \/ AskSitemap
    BY <2>1, CallBegins DEF AskRobots, AskSitemap, Ask
  <2>2. CASE RobotsAnswer \/ SitemapAnswer
    BY <2>2, CallBegins DEF RobotsAnswer, SitemapAnswer, GotAnswer, Idle
  <2>3. CASE StartWalk \/ SkipSitemap \/ EndWalk \/ Stop \/ UNCHANGED <<discovery, vars>>
    <3>1. UNCHANGED vars
      BY <2>3 DEF StartWalk, SkipSitemap, EndWalk, Stop, vars
    <3> QED  BY <3>1, CallKeeps
  <2>4. CASE Fetch
    BY <2>4, CallKeeps DEF Fetch
  <2> QED  BY <2>1, <2>2, <2>3, <2>4 DEF DiscoveryNext, Proceed
<1>3. CallInv => RequestsAreVetted
  BY DEF CallInv, VettedInv
<1> QED  BY <1>1, <1>2, <1>3, PTL DEF DiscoverySpec

-----------------------------------------------------------------------------
(* A refusal is final. *)

\* The policy's record has its fields.
IsPolicy(r) == r \in [scheme : {r.scheme}, attempt : {r.attempt}, fallback : {r.fallback},
                      policy : {r.policy}, sitemaps : {r.sitemaps}, tried : {r.tried}]

\* While robots.txt is asked for nothing is decided, the answers were no refusals, and
\* those over https were inconclusive as long as http may still be asked.
Undecided ==
    stage \in {"ask", "robots"} =>
        /\ robots.policy = None
        /\ robots.scheme \in Schemes
        /\ \A try \in robots.tried :
              /\ try.status \notin {401, 403}
              /\ try.scheme = "https" /\ (robots.fallback \/ robots.scheme = "http")
                   => Inconclusive(try)

\* No refusal is forgotten.
RefusalsDeny == \A try \in robots.tried : try.status \in {401, 403} => robots.policy = "DENIED"

\* What the crawl goes on with.
Permitted ==
    /\ stage = "seed" => /\ robots.policy = "OK"
                         /\ \E try \in robots.tried :
                               \/ try.status = 200
                               \/ try.scheme = "http" /\ try.status \in {404, 410}
    /\ stage \in {"next", "sitemap"} => robots.policy = "OK"

PolicyInv == IsPolicy(robots) /\ Undecided /\ RefusalsDeny /\ Permitted

\* What the last answer adds to the history.
LastTry == [scheme |-> robots.scheme, outcome |-> result.outcome,
            status |-> IF result.outcome = "HTTP_RESPONSE" THEN result.finalStatus ELSE 0]

LEMMA TriedGrows ==
    /\ Tried = robots.tried \cup {LastTry}
    /\ LastTry.scheme = robots.scheme /\ LastTry.outcome = result.outcome
    /\ \A s \in {200, 401, 403, 404, 410} : LastTry.status = s <=> Status(s)
<1>1. Tried = robots.tried \cup {LastTry}
  BY DEF Tried, LastTry
<1>2. /\ LastTry.scheme = robots.scheme /\ LastTry.outcome = result.outcome
      /\ LastTry.status = IF result.outcome = "HTTP_RESPONSE" THEN result.finalStatus ELSE 0
  BY DEF LastTry
<1> QED  BY <1>1, <1>2 DEF Status

\* A decision keeps what the record says of the attempts.
LEMMA DecidedKeeps ==
    ASSUME PolicyInv, stage = "robots", NEW policy, NEW next, Decided(policy, next),
           next \notin {"ask", "robots"},
           Denied => policy = "DENIED",
           next \in {"next", "sitemap"} => policy = "OK",
           next = "seed" => policy = "OK" /\ robots.scheme = "http" /\ Absent
    PROVE  PolicyInv'
<1>1. /\ stage' = next
      /\ robots'.policy = policy /\ robots'.tried = Tried /\ IsPolicy(robots')
  BY DEF Decided, PolicyInv, IsPolicy
<1>2. \A try \in robots.tried : try.status \notin {401, 403}
  BY DEF PolicyInv, Undecided
<1>3. LastTry.status \in {401, 403} => Denied
  BY TriedGrows DEF Denied
<1>4. RefusalsDeny'
  BY <1>1, <1>2, <1>3, TriedGrows DEF RefusalsDeny
<1>5. next = "seed" => LastTry.scheme = "http" /\ LastTry.status \in {404, 410}
  BY TriedGrows DEF Absent
<1>6. Permitted'
  BY <1>1, <1>5, TriedGrows DEF Permitted
<1>7. Undecided'
  BY <1>1 DEF Undecided
<1> QED  BY <1>1, <1>4, <1>6, <1>7 DEF PolicyInv

\* Whatever robots.txt was answered with, the record stays right.
LEMMA AnswerKeeps == PolicyInv /\ RobotsAnswer => PolicyInv'
<1> SUFFICES ASSUME PolicyInv, RobotsAnswer PROVE PolicyInv'
  OBVIOUS
<1>1. stage = "robots"
  BY DEF RobotsAnswer, GotAnswer
<1>2. /\ robots.policy = None /\ robots.scheme \in Schemes
      /\ \A try \in robots.tried :
            /\ try.status \notin {401, 403}
            /\ try.scheme = "https" /\ (robots.fallback \/ robots.scheme = "http") => Inconclusive(try)
  BY <1>1 DEF PolicyInv, Undecided
<1>3. CASE RobotsRead
  <2>1. PICK sitemaps \in RobotsFiles :
          robots' = [robots EXCEPT !.policy = "OK", !.tried = Tried, !.sitemaps = sitemaps,
                                   !.scheme = result.finalUrl.scheme]
    BY <1>3 DEF RobotsRead
  <2>2. robots'.policy = "OK" /\ robots'.tried = Tried /\ IsPolicy(robots')
    BY <2>1 DEF PolicyInv, IsPolicy
  <2>3. stage' = "seed" /\ Status(200)
    BY <1>3 DEF RobotsRead
  <2>4. LastTry.status = 200
    BY <2>3, TriedGrows
  <2>5. RefusalsDeny'
    BY <1>2, <2>2, <2>4, TriedGrows DEF RefusalsDeny
  <2>6. Permitted'
    BY <2>2, <2>3, <2>4, TriedGrows DEF Permitted
  <2> QED  BY <2>2, <2>3, <2>5, <2>6 DEF PolicyInv, Undecided
<1>4. CASE NoRobots
  <2>1. ~Denied
    BY <1>4 DEF NoRobots, Absent, Denied, Status
  <2> QED  BY <1>1, <1>4, <2>1, DecidedKeeps DEF NoRobots
<1>5. CASE RobotsDenied
  BY <1>1, <1>5, DecidedKeeps DEF RobotsDenied
<1>6. CASE RobotsUnusable
  BY <1>1, <1>6, DecidedKeeps DEF RobotsUnusable
<1>7. CASE AskAgain
  <2>1. ~Denied
    <3>1. ASSUME Overloaded, Denied PROVE FALSE
      <4>1. PICK s \in Statuses : Status(s) /\ (s = 429 \/ s >= 500)
        BY <3>1 DEF Overloaded
      <4>2. s \in {401, 403}
        BY <3>1, <4>1 DEF Denied, Status
      <4> QED  BY <4>1, <4>2
    <3> QED  BY <1>7, <3>1 DEF AskAgain, NotReached, Absent, Denied, Status, Failures
  <2>2. LastTry.status \notin {401, 403}
    BY <2>1, TriedGrows DEF Denied
  <2>3. Fallback => Inconclusive(LastTry) /\ robots.fallback
    <3>1. Fallback => robots.fallback /\ (NotReached \/ Absent)
      BY <1>7 DEF AskAgain, Fallback
    <3>2. NotReached => Inconclusive(LastTry)
      BY TriedGrows DEF NotReached, Inconclusive
    <3>3. Absent => Inconclusive(LastTry)
      BY TriedGrows DEF Absent, Inconclusive, Status
    <3> QED  BY <3>1, <3>2, <3>3
  <2>4. \A try \in Tried : try.status \notin {401, 403}
    BY <1>2, <2>2, TriedGrows
  <2>5. CASE /\ stage' = "ask"
             /\ robots' = [robots EXCEPT !.attempt = robots.attempt + 1, !.fallback = Fallback,
                                         !.tried = Tried]
    <3>1. /\ robots'.policy = None /\ robots'.scheme = robots.scheme
          /\ robots'.fallback = Fallback /\ robots'.tried = Tried /\ IsPolicy(robots')
      <4> DEFINE n == robots.attempt + 1
      <4>1. IsPolicy(robots)
        BY DEF PolicyInv
      <4>2. robots' = [robots EXCEPT !.attempt = n, !.fallback = Fallback, !.tried = Tried]
        BY <2>5
      <4> HIDE DEF n
      <4>3. IsPolicy(robots')
        BY <4>1, <4>2 DEF IsPolicy
      <4>4. robots'.policy = robots.policy /\ robots'.scheme = robots.scheme /\ robots'.tried = Tried
        BY <4>1, <4>2 DEF IsPolicy
      <4>5. robots'.fallback = Fallback
        BY <4>1, <4>2 DEF IsPolicy
      <4> QED  BY <1>2, <4>3, <4>4, <4>5
    <3>2. ASSUME NEW try \in Tried, try.scheme = "https", Fallback \/ robots.scheme = "http"
          PROVE  Inconclusive(try)
      <4>1. CASE try \in robots.tried
        BY <1>2, <2>3, <3>2, <4>1
      <4>2. CASE try = LastTry
        BY <2>3, <3>2, <4>2, TriedGrows
      <4> QED  BY <4>1, <4>2, TriedGrows
    <3>3. Undecided'
      BY <1>2, <2>4, <3>1, <3>2 DEF Undecided, Inconclusive
    <3> QED  BY <2>4, <2>5, <3>1, <3>3 DEF PolicyInv, RefusalsDeny, Permitted
  <2>6. CASE /\ robots.scheme = "https" /\ Fallback /\ stage' = "ask"
             /\ robots' = [robots EXCEPT !.scheme = "http", !.attempt = 1, !.tried = Tried]
    <3>1. /\ robots'.policy = None /\ robots'.scheme = "http"
          /\ robots'.tried = Tried /\ IsPolicy(robots')
      <4>1. IsPolicy(robots)
        BY DEF PolicyInv
      <4>2. robots' = [robots EXCEPT !.scheme = "http", !.attempt = 1, !.tried = Tried]
        BY <2>6
      <4>3. IsPolicy(robots')
        BY <4>1, <4>2 DEF IsPolicy
      <4>4. robots'.policy = robots.policy /\ robots'.scheme = "http" /\ robots'.tried = Tried
        BY <4>1, <4>2 DEF IsPolicy
      <4> QED  BY <1>2, <4>3, <4>4
    <3>2. ASSUME NEW try \in Tried, try.scheme = "https" PROVE Inconclusive(try)
      BY <1>2, <2>3, <2>6, <3>2, TriedGrows
    <3>3. Undecided'
      BY <2>4, <3>1, <3>2 DEF Undecided, Inconclusive, Schemes
    <3> QED  BY <2>4, <2>6, <3>1, <3>3 DEF PolicyInv, RefusalsDeny, Permitted
  <2>7. CASE Decided("UNAVAILABLE", "over")
    BY <1>1, <2>1, <2>7, DecidedKeeps
  <2> QED  BY <1>7, <2>5, <2>6, <2>7 DEF AskAgain
<1> QED  BY <1>3, <1>4, <1>5, <1>6, <1>7 DEF RobotsAnswer

\* The start of the walk drops the history and keeps the decision.
LEMMA StartKeeps ==
    ASSUME IsPolicy(robots), robots' = [robots EXCEPT !.tried = {}, !.sitemaps = <<>>]
    PROVE  robots'.policy = robots.policy /\ robots'.tried = {} /\ IsPolicy(robots')
  BY DEF IsPolicy

\* http is asked only if no attempt over https was conclusive, a refusal denies the crawl,
\* and the crawl goes on only with a permission, whatever the site answers and however often.
THEOREM RefusalsAreFinal == DiscoverySpec => []RefusalIsFinal
<1>1. DiscoveryInit => PolicyInv
  <2> SUFFICES ASSUME DiscoveryInit PROVE PolicyInv
    OBVIOUS
  <2>1. /\ stage = "ask" /\ robots.policy = None /\ robots.scheme = "https" /\ robots.tried = {}
        /\ IsPolicy(robots)
    BY DEF DiscoveryInit, IsPolicy
  <2> QED  BY <2>1 DEF PolicyInv, Undecided, RefusalsDeny, Permitted, Schemes
<1>2. PolicyInv /\ [DiscoveryNext]_<<discovery, vars>> => PolicyInv'
  <2> SUFFICES ASSUME PolicyInv, [DiscoveryNext]_<<discovery, vars>> PROVE PolicyInv'
    OBVIOUS
  <2> USE DEF PolicyInv, Undecided, RefusalsDeny, Permitted
  <2>1. ASSUME UNCHANGED robots,
               \/ stage' = stage
               \/ stage = "ask" /\ stage' = "robots"
               \/ stage = "next" /\ stage' \in {"sitemap", "over"}
               \/ stage = "sitemap" /\ stage' = "next"
               \/ stage' = "stopped"
        PROVE  PolicyInv'
    BY <2>1 DEF Inconclusive
  <2>2. CASE AskRobots \/ SkipSitemap \/ AskSitemap \/ SitemapAnswer \/ EndWalk \/ Stop
    BY <2>1, <2>2 DEF AskRobots, SkipSitemap, AskSitemap, SitemapAnswer, GotAnswer, EndWalk, Stop
  <2>3. CASE Fetch \/ UNCHANGED <<discovery, vars>>
    BY <2>1, <2>3 DEF Fetch, discovery
  <2>4. CASE StartWalk
    <3>1. stage = "seed" /\ stage' = "next" /\ robots' = [robots EXCEPT !.tried = {}, !.sitemaps = <<>>]
      BY <2>4 DEF StartWalk
    <3>2. robots'.policy = robots.policy /\ robots'.tried = {} /\ IsPolicy(robots')
      BY <3>1, StartKeeps
    <3> QED  BY <3>1, <3>2
  <2>5. CASE RobotsAnswer
    BY <2>5, AnswerKeeps
  <2> QED  BY <2>2, <2>3, <2>4, <2>5 DEF DiscoveryNext, Proceed
<1>3. PolicyInv => RefusalIsFinal
  BY DEF PolicyInv, Undecided, RefusalsDeny, Permitted, RefusalIsFinal
<1> QED  BY <1>1, <1>2, <1>3, PTL DEF DiscoverySpec

-----------------------------------------------------------------------------
(* Sequences. *)

\* What a sequence has in some places is counted by rank.
LEMMA EntriesOf ==
    ASSUME NEW s, NEW n \in Nat, NEW places \in SUBSET (1..n)
    PROVE  LET q == Entries(s, places)
           IN  /\ IsFiniteSet(places) /\ Cardinality(places) \in Nat
               /\ q = [k \in 1..Cardinality(places) |-> q[k]]
               /\ \A i \in places : \E k \in 1..Cardinality(places) : q[k] = s[i]
               /\ \A k \in 1..Cardinality(places) : \E i \in places : q[k] = s[i]
<1> DEFINE c        == Cardinality(places)
           Below(i) == {j \in places : j <= i}
           rank     == [i \in places |-> Cardinality(Below(i))]
           q        == Entries(s, places)
<1>1. IsFiniteSet(places) /\ c \in Nat
  <2>1. IsFiniteSet(1..n)
    BY FS_Interval
  <2>2. IsFiniteSet(places)
    BY <2>1, FS_Subset
  <2> QED  BY <2>2, FS_CardinalityType
<1>2. \A i \in places : IsFiniteSet(Below(i)) /\ rank[i] \in 1..c
  <2>1. ASSUME NEW i \in places PROVE IsFiniteSet(Below(i)) /\ Cardinality(Below(i)) \in 1..c
    <3>1. IsFiniteSet(Below(i)) /\ Cardinality(Below(i)) <= c
      BY <1>1, FS_Subset
    <3>2. i \in Below(i)
      OBVIOUS
    <3>3. Cardinality(Below(i)) \in Nat /\ Cardinality(Below(i)) # 0
      BY <3>1, <3>2, FS_CardinalityType, FS_EmptySet
    <3> QED  BY <1>1, <3>1, <3>3
  <2> QED  BY <2>1
<1>3. \A i, j \in places : i < j => rank[i] # rank[j]
  <2>1. ASSUME NEW i \in places, NEW j \in places, i < j, Cardinality(Below(i)) = Cardinality(Below(j))
        PROVE  FALSE
    <3>1. Below(i) \subseteq Below(j) /\ j \in Below(j) /\ j \notin Below(i)
      <4>1. i \in Int /\ j \in Int /\ \A k \in places : k \in Int
        OBVIOUS
      <4>2. \A k \in places : k <= i => k <= j
        BY <2>1, <4>1
      <4>3. Below(i) \subseteq Below(j)
        BY <4>2
      <4>4. j \in Below(j)
        BY <4>1
      <4>5. j \notin Below(i)
        BY <2>1, <4>1
      <4> QED  BY <4>3, <4>4, <4>5
    <3> HIDE DEF Below
    <3>2. Below(j) = Below(i)
      BY <1>2, <2>1, <3>1, FS_Subset
    <3> QED  BY <3>1, <3>2
  <2> QED  BY <2>1
<1>4. rank \in [places -> 1..c] /\ \A i, j \in places : rank[i] = rank[j] => i = j
  <2>1. rank \in [places -> 1..c]
    BY <1>2
  <2> HIDE DEF rank
  <2>2. \A i, j \in places : i < j \/ j < i \/ i = j
    OBVIOUS
  <2> QED  BY <1>3, <2>1, <2>2
<1>5. \A k \in 1..c : \E i \in places : rank[i] = k
  <2> HIDE DEF rank, c
  <2>1. rank \in Injection(places, 1..c)
    BY <1>4 DEF Injection, IsInjective
  <2>2. IsFiniteSet(1..c) /\ Cardinality(1..c) = c
    BY <1>1, FS_Interval
  <2>3. rank \in Surjection(places, 1..c)
    BY <2>1, <2>2, FS_Injection DEF c
  <2> QED  BY <2>3 DEF Surjection
<1> DEFINE place(k) == CHOOSE i \in places : Cardinality(Below(i)) = k
<1>6. \A k \in 1..c : place(k) \in places /\ rank[place(k)] = k
  <2>1. ASSUME NEW k \in 1..c PROVE place(k) \in places /\ Cardinality(Below(place(k))) = k
    <3>1. \E i \in places : Cardinality(Below(i)) = k
      BY <1>5
    <3> HIDE DEF Below
    <3> QED  BY <3>1
  <2> HIDE DEF place
  <2> QED  BY <2>1
<1>7. q = [k \in 1..c |-> s[place(k)]]
  BY DEF Entries
<1> HIDE DEF rank, c, q, place
<1>8. \A i \in places : place(rank[i]) = i /\ rank[i] \in 1..c
  BY <1>4, <1>6
<1>9. \A i \in places : rank[i] \in 1..c /\ q[rank[i]] = s[i]
  BY <1>7, <1>8
<1>10. \A k \in 1..c : \E i \in places : q[k] = s[i]
  BY <1>6, <1>7
<1>11. q = [k \in 1..c |-> q[k]]
  BY <1>7
<1> QED  BY <1>1, <1>9, <1>10, <1>11 DEF c, q

\* The places in which a sequence has something new are enough to find all it has.
LEMMA FirstsSuffice ==
    ASSUME NEW S, NEW s \in Seq(S)
    PROVE  /\ Firsts(s) \subseteq 1..Len(s)
           /\ \A i \in DOMAIN s : \E j \in Firsts(s) : s[j] = s[i]
<1>1. ASSUME NEW i \in DOMAIN s PROVE \E j \in Firsts(s) : s[j] = s[i]
  <2> DEFINE T == {j \in DOMAIN s : s[j] = s[i]}
  <2>1. T \subseteq Nat /\ i \in T
    OBVIOUS
  <2>2. PICK j \in T : \A k \in T : j <= k
    <3> HIDE DEF T
    <3>1. PICK j \in T : \A k \in T : <<k, j>> \notin OpToRel(<, Nat)
      BY <2>1, NatLessThanWellFounded, WFMin
    <3>2. \A k \in T : ~(k < j)
      BY <2>1, <3>1 DEF OpToRel
    <3> QED  BY <2>1, <3>2
  <2>3. \A k \in 1..(j - 1) : s[k] # s[j]
    BY <2>2
  <2> QED  BY <2>2, <2>3 DEF Firsts
<1> QED  BY <1>1 DEF Firsts

-----------------------------------------------------------------------------
(* The calls of a crawl, one after the other. *)

\* What every call of the crawl keeps.
CallsInv == TypeOK /\ ChainInv /\ VettedInv

\* The crawl is between two calls, or begins one with a URL.
Fresh == /\ \E url \in Urls, pc \in {"check", "done"} : fetch = Calling(pc, url)
         /\ result = NoResult /\ requests = <<>>

LEMMA FreshCall == Fresh => CallsInv
<1> SUFFICES ASSUME NEW url \in Urls, NEW pc \in {"check", "done"},
                    fetch = Calling(pc, url), result = NoResult, requests = <<>>
             PROVE  CallsInv
  BY DEF Fresh
<1>1. fetch \in FetchState /\ fetch.pc = pc /\ fetch.redirects = 0
  BY FetchAssumption DEF FetchState, Calling, Pcs
<1>2. /\ result \in Result /\ result.redirectChain = <<>> /\ result.body = NoBody
      /\ result.outcome = "NETWORK_ERROR"
  BY DEF Result, Outcomes, NoResult
<1>3. requests \in Seq(Request) /\ requests = <<>>
  OBVIOUS
<1>4. TypeOK
  BY <1>1, <1>2, <1>3 DEF TypeOK, FetchState, Result
<1>5. VettedInv
  BY <1>1, <1>3 DEF VettedInv, RequestsAreVetted
<1>6. ResultTellsTheRequests
  BY <1>2, <1>3, FetchAssumption DEF ResultTellsTheRequests
<1>7. fetch.pc # "done" => Running
  BY <1>1, <1>2, <1>3, FetchAssumption DEF Running
<1> QED  BY <1>4, <1>5, <1>6, <1>7 DEF CallsInv, ChainInv

LEMMA FreshCallNext == Fresh' => CallsInv'
BY FreshCall, PTL

\* A call that has the status 200 has a final URL of one of the two schemes: it was asked for.
LEMMA AnswerHasScheme ==
    ASSUME CallsInv, At("done"), Status(200)
    PROVE  result.finalUrl.scheme \in Schemes
<1>1. result.body # NoBody
  BY DEF CallsInv, ChainInv, ResultTellsTheRequests, Status
<1>2. /\ Len(result.redirectChain) + 1 = Len(requests)
      /\ result.finalUrl = requests[Len(requests)].url
  BY <1>1 DEF CallsInv, ChainInv, ResultTellsTheRequests
<1>3. Len(requests) \in DOMAIN requests
  BY <1>2 DEF CallsInv, TypeOK
<1>4. SafeUrl(requests[Len(requests)].url)
  BY <1>3 DEF CallsInv, VettedInv, RequestsAreVetted
<1> QED  BY <1>2, <1>4 DEF SafeUrl, Schemes

-----------------------------------------------------------------------------
(* The walk. *)

IsWalk(w) == w \in [queue : Seq(Entry), depth : 0..MaxDepth, seen : SUBSET Urls,
                    candidates : SUBSET DOMAIN Identity, limit : BOOLEAN,
                    read : SUBSET (Documents \cup Lists)]

\* A walk has what a document lists, or will ask for it.
Accounted(w, d) ==
    \A i \in DOMAIN d.locs :
        SameHost(d.locs[i]) => IF d.kind = "INDEX" THEN Known(w, d.locs[i])
                               ELSE Identity[d.locs[i]] \in w.candidates

\* A walk that has not said that it was cut short has left nothing out so far.
WalkInv ==
    /\ IsFiniteSet(walk.seen)
    /\ ~walk.limit => \A d \in walk.read : Accounted(walk, d)
    /\ stage = "over" /\ robots.policy = "OK" /\ ~walk.limit
         => walk.queue = <<>> \/ ~(Cardinality(walk.candidates) < MaxCandidates)

\* A function on 1..n is a sequence.
LEMMA ListOf ==
    ASSUME NEW S, NEW n \in Nat, NEW f, f = [k \in 1..n |-> f[k]], \A k \in 1..n : f[k] \in S
    PROVE  f \in Seq(S)
<1>1. f \in [1..n -> S]
  OBVIOUS
<1> QED  BY <1>1, SeqDef

\* Sitemaps in some places, as entries of the queue.
LEMMA QueuedType ==
    ASSUME NEW S, NEW urls \in Seq(S), S \subseteq Urls, NEW places \in SUBSET DOMAIN urls,
           NEW depth, places # {} => depth \in 0..MaxDepth
    PROVE  LET entries == Queued(Entries(urls, places), depth)
           IN  /\ entries \in Seq(Entry)
               /\ Entries(urls, places) \in Seq(Urls)
               /\ DOMAIN entries = DOMAIN Entries(urls, places)
               /\ \A k \in DOMAIN entries : entries[k].url = Entries(urls, places)[k]
               /\ \A i \in places : \E k \in DOMAIN entries : entries[k].url = urls[i]
<1> DEFINE q == Entries(urls, places)
           c == Cardinality(places)
           e == Queued(q, depth)
<1>0. DOMAIN urls = 1..Len(urls) /\ Len(urls) \in Nat /\ \A i \in DOMAIN urls : urls[i] \in Urls
  OBVIOUS
<1>1. /\ c \in Nat /\ IsFiniteSet(places)
      /\ q = [k \in 1..c |-> q[k]]
      /\ \A i \in places : \E k \in 1..c : q[k] = urls[i]
      /\ \A k \in 1..c : \E i \in places : q[k] = urls[i]
  <2>1. Len(urls) \in Nat /\ places \in SUBSET (1..Len(urls))
    BY <1>0
  <2> QED  BY <2>1, EntriesOf
<1> HIDE DEF q
<1>2. c # 0 => places # {}
  BY FS_EmptySet
<1>3. e = [k \in DOMAIN q |-> [url |-> q[k], depth |-> depth]]
  BY DEF Queued
<1> HIDE DEF c, e
<1>4. DOMAIN q = 1..c /\ DOMAIN e = 1..c
  BY <1>1, <1>3
<1>5. q \in Seq(Urls)
  BY <1>0, <1>1, ListOf
<1>6. \A k \in 1..c : e[k] \in Entry /\ e[k].url = q[k]
  <2> SUFFICES ASSUME NEW k \in 1..c PROVE e[k] \in Entry /\ e[k].url = q[k]
    OBVIOUS
  <2>1. depth \in 0..MaxDepth /\ q[k] \in Urls
    BY <1>0, <1>1, <1>2
  <2> QED  BY <1>3, <1>4, <2>1 DEF Entry
<1>7. e \in Seq(Entry)
  <2>1. e = [k \in 1..c |-> e[k]]
    BY <1>3, <1>4
  <2> QED  BY <1>1, <1>6, <2>1, ListOf
<1>8. \A i \in places : \E k \in DOMAIN e : e[k].url = urls[i]
  BY <1>1, <1>4, <1>6
<1> QED  BY <1>4, <1>5, <1>6, <1>7, <1>8 DEF e, q

LEMMA PagesAtType ==
    ASSUME NEW locs \in Seq(DOMAIN Identity), NEW places, places \subseteq DOMAIN locs
    PROVE  PagesAt(locs, places) \subseteq DOMAIN Identity
BY DiscoveryAssumption DEF PagesAt

\* A URL set's pages are candidates, or the walk says that it was cut short.
LEMMA PagesTold ==
    ASSUME NEW w, IsWalk(w), NEW locs \in Seq(DOMAIN Identity)
    PROVE  LET v == WithPages(w, locs)
           IN  /\ IsWalk(v)
               /\ v.queue = w.queue /\ v.seen = w.seen /\ v.read = w.read
               /\ w.candidates \subseteq v.candidates
               /\ ~v.limit => /\ ~w.limit
                              /\ \A i \in DOMAIN locs :
                                    SameHost(locs[i]) => Identity[locs[i]] \in v.candidates
<1> DEFINE Found(n) == w.candidates \cup PagesAt(locs, 1..n)
           taken    == {i \in DOMAIN locs : Cardinality(Found(i - 1)) < MaxCandidates}
           more     == w.candidates \cup PagesAt(locs, taken)
           told     == w.limit \/ taken # DOMAIN locs
           v        == WithPages(w, locs)
<1>1. v = [[w EXCEPT !.candidates = more] EXCEPT !.limit = @ \/ taken # DOMAIN locs]
  BY DEF WithPages, Told
<1>2. taken \subseteq DOMAIN locs
  OBVIOUS
<1> HIDE DEF taken, v
<1>3. more \subseteq DOMAIN Identity
  BY <1>2, PagesAtType DEF IsWalk
<1>4. \A i \in taken : SameHost(locs[i]) => Identity[locs[i]] \in more
  BY DEF PagesAt
<1>5. w.candidates \subseteq more
  OBVIOUS
<1> HIDE DEF more
<1>6. v = [w EXCEPT !.candidates = more, !.limit = told]
  BY <1>1 DEF IsWalk
<1>7. told \in BOOLEAN
  OBVIOUS
<1>8. told = FALSE => ~w.limit /\ taken = DOMAIN locs
  OBVIOUS
<1> HIDE DEF told
<1>9. /\ IsWalk(v) /\ v.candidates = more /\ v.limit = told
      /\ v.queue = w.queue /\ v.seen = w.seen /\ v.read = w.read
  BY <1>3, <1>6, <1>7 DEF IsWalk
<1> QED  BY <1>4, <1>5, <1>7, <1>8, <1>9 DEF v

\* The sitemaps of an index are known, or the walk says that it was cut short.
LEMMA ChildrenTold ==
    ASSUME NEW w, IsWalk(w), NEW locs \in Seq(Urls)
    PROVE  LET v == WithChildren(w, locs)
           IN  /\ IsWalk(v)
               /\ v.candidates = w.candidates /\ v.seen = w.seen /\ v.read = w.read
               /\ \A u : Known(w, u) => Known(v, u)
               /\ ~v.limit => /\ ~w.limit
                              /\ \A i \in DOMAIN locs : SameHost(locs[i]) => Known(v, locs[i])
<1> DEFINE new   == {i \in Firsts(locs) : SameHost(locs[i]) /\ ~Known(w, locs[i])}
           taken == {i \in new : /\ w.depth < MaxDepth
                                 /\ Cardinality(w.seen) + Len(w.queue)
                                        + Cardinality({j \in new : j < i}) < MaxDocs}
           added == Queued(Entries(locs, taken), w.depth + 1)
           told  == w.limit \/ taken # new
           v     == WithChildren(w, locs)
<1>1. v = [[w EXCEPT !.queue = @ \o added] EXCEPT !.limit = @ \/ taken # new]
  BY DEF WithChildren, Told
<1>2. taken \subseteq new /\ (taken # {} => w.depth < MaxDepth)
  OBVIOUS
<1>3. \A i \in DOMAIN locs : SameHost(locs[i]) =>
         Known(w, locs[i]) \/ \E j \in new : locs[j] = locs[i]
  BY FirstsSuffice
<1>4. new \subseteq DOMAIN locs
  BY FirstsSuffice
<1> HIDE DEF new, taken, v
<1>5. /\ added \in Seq(Entry)
      /\ \A i \in taken : \E k \in DOMAIN added : added[k].url = locs[i]
  <2>1. taken # {} => w.depth + 1 \in 0..MaxDepth
    BY <1>2, DiscoveryAssumption DEF IsWalk
  <2>2. taken \in SUBSET DOMAIN locs
    BY <1>2, <1>4
  <2> QED  BY <2>1, <2>2, QueuedType
<1>6. told \in BOOLEAN /\ (told = FALSE => ~w.limit /\ taken = new)
  OBVIOUS
<1>7. v = [w EXCEPT !.queue = w.queue \o added, !.limit = told]
  BY <1>1 DEF IsWalk
<1> HIDE DEF added, told
<1>8. w.queue \in Seq(Entry)
  BY DEF IsWalk
<1>9. /\ w.queue \o added \in Seq(Entry)
      /\ \A k \in DOMAIN w.queue : /\ k \in DOMAIN (w.queue \o added)
                                   /\ (w.queue \o added)[k] = w.queue[k]
      /\ \A k \in DOMAIN added : /\ Len(w.queue) + k \in DOMAIN (w.queue \o added)
                                 /\ (w.queue \o added)[Len(w.queue) + k] = added[k]
  BY <1>5, <1>8
<1> DEFINE q == w.queue \o added
<1> HIDE DEF q
<1>10. /\ IsWalk(v) /\ v.queue = q /\ v.limit = told
       /\ v.candidates = w.candidates /\ v.seen = w.seen /\ v.read = w.read
  BY <1>6, <1>7, <1>9 DEF IsWalk, q
<1>11. \A k \in DOMAIN w.queue : k \in DOMAIN q /\ q[k] = w.queue[k]
  BY <1>9 DEF q
<1>12. \A k \in DOMAIN added : \E j \in DOMAIN q : q[j] = added[k]
  BY <1>9 DEF q
<1>13. \A u : Known(w, u) => Known(v, u)
  BY <1>10, <1>11 DEF Known
<1>14. \A i \in taken : Known(v, locs[i])
  BY <1>5, <1>10, <1>12 DEF Known
<1> QED  BY <1>3, <1>6, <1>10, <1>13, <1>14 DEF v

\* What the walk already has stays accounted for.
LEMMA AccountedStays ==
    ASSUME NEW w, NEW v, NEW d, Accounted(w, d), w.candidates \subseteq v.candidates,
           \A u : SameHost(u) /\ Known(w, u) => Known(v, u)
    PROVE  Accounted(v, d)
BY DEF Accounted

\* A document more, and what it lists.
LEMMA ReadOne ==
    ASSUME NEW w, IsWalk(w), NEW d \in Documents
    PROVE  LET v == [w EXCEPT !.read = @ \cup {d}]
           IN  /\ IsWalk(v)
               /\ v.queue = w.queue /\ v.seen = w.seen /\ v.candidates = w.candidates
               /\ v.limit = w.limit /\ v.read = w.read \cup {d}
               /\ \A u : Known(v, u) <=> Known(w, u)
<1> DEFINE v == [w EXCEPT !.read = w.read \cup {d}]
<1>1. w.read \cup {d} \in SUBSET (Documents \cup Lists)
  BY DEF IsWalk
<1>2. /\ IsWalk(v)
      /\ v.queue = w.queue /\ v.seen = w.seen /\ v.candidates = w.candidates
      /\ v.limit = w.limit /\ v.read = w.read \cup {d}
  BY <1>1 DEF IsWalk
<1> HIDE DEF v
<1>3. \A u : Known(v, u) <=> Known(w, u)
  BY <1>2 DEF Known
<1> QED  BY <1>2, <1>3 DEF v

IsRobots(r) == r \in [scheme : Schemes, attempt : 1..3, fallback : BOOLEAN,
                      policy : {None, "OK", "DENIED", "UNAVAILABLE"},
                      sitemaps : Seq(Urls), tried : SUBSET Try]

\* The crawl's own state and that of its calls.
BeginInv == DiscoveryTypeOK /\ CallsInv

LEMMA TriedType == BeginInv => Tried \in SUBSET Try
<1> SUFFICES ASSUME BeginInv PROVE Tried \in SUBSET Try
  OBVIOUS
<1> DEFINE last == [scheme |-> robots.scheme, outcome |-> result.outcome,
                    status |-> IF result.outcome = "HTTP_RESPONSE" THEN result.finalStatus ELSE 0]
<1>1. last \in Try
  <2>1. robots.scheme \in Schemes
    BY DEF BeginInv, DiscoveryTypeOK
  <2>2. result.outcome \in Outcomes /\ result.finalStatus \in Statuses \cup {0}
    BY DEF BeginInv, CallsInv, TypeOK
  <2> QED  BY <2>1, <2>2 DEF Try
<1> HIDE DEF last
<1>2. Tried = robots.tried \cup {last}
  BY DEF Tried, last
<1>3. robots.tried \subseteq Try
  BY DEF BeginInv, DiscoveryTypeOK
<1> QED  BY <1>1, <1>2, <1>3

\* Whatever robots.txt was answered with, its record has its type.
LEMMA RobotsAnswerType == BeginInv /\ RobotsAnswer => DiscoveryTypeOK' /\ walk' = walk
<1> SUFFICES ASSUME BeginInv, RobotsAnswer PROVE DiscoveryTypeOK' /\ walk' = walk
  OBVIOUS
<1>1. walk' = walk /\ At("done")
  BY DEF RobotsAnswer, GotAnswer
<1>2. IsRobots(robots) /\ Tried \in SUBSET Try
  BY TriedType DEF BeginInv, DiscoveryTypeOK, IsRobots
<1>3. SUFFICES IsRobots(robots') /\ stage' \in {"ask", "seed", "over"}
  BY <1>1 DEF BeginInv, DiscoveryTypeOK, IsRobots
<1>4. ASSUME NEW policy \in {"OK", "DENIED", "UNAVAILABLE"}, NEW next \in {"seed", "over"},
             Decided(policy, next)
      PROVE  IsRobots(robots') /\ stage' \in {"ask", "seed", "over"}
  BY <1>2, <1>4 DEF Decided, IsRobots
<1>5. CASE RobotsRead
  <2>1. PICK sitemaps \in RobotsFiles :
          robots' = [robots EXCEPT !.policy = "OK", !.tried = Tried, !.sitemaps = sitemaps,
                                   !.scheme = result.finalUrl.scheme]
    BY <1>5 DEF RobotsRead
  <2>2. result.finalUrl.scheme \in Schemes
    BY <1>1, <1>5, AnswerHasScheme DEF RobotsRead, BeginInv
  <2>3. sitemaps \in Seq(Urls)
    BY DiscoveryAssumption
  <2>4. IsRobots(robots')
    BY <1>2, <2>1, <2>2, <2>3 DEF IsRobots
  <2> QED  BY <1>5, <2>4 DEF RobotsRead
<1>6. CASE NoRobots \/ RobotsDenied \/ RobotsUnusable
  BY <1>4, <1>6 DEF NoRobots, RobotsDenied, RobotsUnusable
<1>7. CASE AskAgain
  <2>1. Fallback \in BOOLEAN /\ (Fallback <=> robots.fallback /\ ~Overloaded)
    BY DEF Fallback
  <2>2. CASE /\ robots.attempt < Attempts(robots.scheme)
             /\ stage' = "ask"
             /\ robots' = [robots EXCEPT !.attempt = robots.attempt + 1, !.fallback = Fallback,
                                         !.tried = Tried]
    <3> DEFINE n == robots.attempt + 1
    <3>1. n \in 1..3
      BY <1>2, <2>2 DEF IsRobots, Attempts
    <3>2. robots' = [robots EXCEPT !.attempt = n, !.fallback = Fallback, !.tried = Tried]
      BY <2>2
    <3> HIDE DEF n
    <3>3. IsRobots(robots')
      BY <1>2, <2>1, <3>1, <3>2 DEF IsRobots
    <3> QED  BY <2>2, <3>3
  <2>3. CASE /\ stage' = "ask"
             /\ robots' = [robots EXCEPT !.scheme = "http", !.attempt = 1, !.tried = Tried]
    <3>1. "http" \in Schemes /\ 1 \in 1..3
      BY DEF Schemes
    <3>2. IsRobots(robots')
      BY <1>2, <2>3, <3>1 DEF IsRobots
    <3> QED  BY <2>3, <3>2
  <2>4. CASE Decided("UNAVAILABLE", "over")
    BY <1>4, <2>4
  <2>5. \/ /\ robots.attempt < Attempts(robots.scheme)
           /\ stage' = "ask"
           /\ robots' = [robots EXCEPT !.attempt = robots.attempt + 1, !.fallback = Fallback,
                                       !.tried = Tried]
        \/ /\ stage' = "ask"
           /\ robots' = [robots EXCEPT !.scheme = "http", !.attempt = 1, !.tried = Tried]
        \/ Decided("UNAVAILABLE", "over")
    BY <1>2, <1>7 DEF AskAgain, IsRobots
  <2> QED  BY <2>2, <2>3, <2>4, <2>5
<1> QED  BY <1>5, <1>6, <1>7 DEF RobotsAnswer

\* The sources of the walk are in its queue.
LEMMA StartWalkTells ==
    ASSUME BeginInv, StartWalk
    PROVE  /\ DiscoveryTypeOK'
           /\ walk'.seen = walk.seen /\ walk'.limit = walk.limit
           /\ \A d \in walk'.read : Accounted(walk', d)
<1> DEFINE named   == Append(robots.sitemaps, SitemapAt[robots.scheme])
           sources == Entries(named, Firsts(named))
           queue   == Queued(sources, 0)
           d       == [kind |-> "INDEX", locs |-> sources]
<1>1. walk' = [walk EXCEPT !.queue = queue, !.read = {d}]
  BY DEF StartWalk
<1>2. IsWalk(walk) /\ IsRobots(robots)
  BY DEF BeginInv, DiscoveryTypeOK, IsWalk, IsRobots
<1>3. named \in Seq(Urls)
  <2>1. SitemapAt[robots.scheme] \in Urls
    BY <1>2, DiscoveryAssumption DEF IsRobots
  <2> QED  BY <1>2, <2>1 DEF IsRobots
<1> HIDE DEF named
<1>4. Firsts(named) \in SUBSET DOMAIN named
  BY <1>3, FirstsSuffice
<1>5. 0 \in 0..MaxDepth
  BY DiscoveryAssumption
<1>6. /\ queue \in Seq(Entry) /\ sources \in Seq(Urls)
      /\ DOMAIN queue = DOMAIN sources
      /\ \A k \in DOMAIN queue : queue[k].url = sources[k]
  BY <1>3, <1>4, <1>5, QueuedType
<1> HIDE DEF queue, sources
<1>7. d \in Lists
  BY <1>6 DEF Lists
<1>8. d.kind = "INDEX" /\ d.locs = sources
  OBVIOUS
<1> HIDE DEF d
<1>9. /\ IsWalk(walk') /\ walk'.seen = walk.seen /\ walk'.limit = walk.limit
      /\ walk'.queue = queue /\ walk'.read = {d}
  BY <1>1, <1>2, <1>6, <1>7 DEF IsWalk
<1>10. Accounted(walk', d)
  BY <1>6, <1>8, <1>9 DEF Accounted, Known
<1>11. IsRobots(robots') /\ stage' = "next"
  <2>1. robots' = [robots EXCEPT !.tried = {}, !.sitemaps = <<>>] /\ stage' = "next"
    BY DEF StartWalk
  <2>2. {} \in SUBSET Try /\ <<>> \in Seq(Urls)
    OBVIOUS
  <2> QED  BY <1>2, <2>1, <2>2 DEF IsRobots
<1> QED  BY <1>9, <1>10, <1>11 DEF DiscoveryTypeOK, IsWalk, IsRobots

\* The head of a queue and the rest of it.
LEMMA QueueHead ==
    ASSUME BeginInv, walk.queue # <<>>
    PROVE  /\ Head(walk.queue) \in Entry /\ Tail(walk.queue) \in Seq(Entry)
           /\ NextUrl \in Urls /\ Head(walk.queue).depth \in 0..MaxDepth
           /\ \A k \in DOMAIN walk.queue :
                 \/ walk.queue[k].url = NextUrl
                 \/ \E j \in DOMAIN Tail(walk.queue) : Tail(walk.queue)[j] = walk.queue[k]
<1> DEFINE q == walk.queue
<1>1. q \in Seq(Entry) /\ q # <<>>
  BY DEF BeginInv, DiscoveryTypeOK
<1> HIDE DEF q
<1>2. Head(q) = q[1] /\ Head(q) \in Entry /\ Tail(q) \in Seq(Entry)
  BY <1>1
<1>3. ASSUME NEW k \in DOMAIN q, k # 1
      PROVE  k - 1 \in DOMAIN Tail(q) /\ Tail(q)[k - 1] = q[k]
  BY <1>1, <1>3
<1>4. Head(q).url \in Urls /\ Head(q).depth \in 0..MaxDepth
  BY <1>2 DEF Entry
<1> QED  BY <1>2, <1>3, <1>4 DEF NextUrl, q

\* The answer to a sitemap: what the document lists is there, or the walk says that it is not.
LEMMA SitemapAnswerTells ==
    ASSUME BeginInv, WalkInv, SitemapAnswer
    PROVE  DiscoveryTypeOK' /\ WalkInv'
<1>1. IsWalk(walk) /\ IsRobots(robots) /\ UNCHANGED robots /\ stage' = "next"
  BY DEF BeginInv, DiscoveryTypeOK, IsWalk, IsRobots, SitemapAnswer
<1>2. SUFFICES /\ IsWalk(walk') /\ walk'.seen = walk.seen
               /\ ~walk'.limit => \A d \in walk'.read : Accounted(walk', d)
  BY <1>1 DEF DiscoveryTypeOK, WalkInv, IsWalk, IsRobots
<1>3. CASE walk' = walk
  BY <1>1, <1>3 DEF WalkInv
<1>4. ASSUME NEW d \in Documents,
             LET w == [walk EXCEPT !.read = @ \cup {d}]
             IN  walk' = CASE d.kind = "URLSET"  -> WithPages(w, d.locs)
                           [] d.kind = "INDEX"   -> WithChildren(w, d.locs)
                           [] d.kind = "UNKNOWN" -> w
      PROVE  /\ IsWalk(walk') /\ walk'.seen = walk.seen
             /\ ~walk'.limit => \A e \in walk'.read : Accounted(walk', e)
  <2> DEFINE w == [walk EXCEPT !.read = @ \cup {d}]
  <2>1. /\ IsWalk(w) /\ w.queue = walk.queue /\ w.seen = walk.seen
        /\ w.candidates = walk.candidates /\ w.limit = walk.limit
        /\ w.read = walk.read \cup {d} /\ \A u : Known(w, u) <=> Known(walk, u)
    BY <1>1, ReadOne
  <2>2. walk' = CASE d.kind = "URLSET"  -> WithPages(w, d.locs)
                  [] d.kind = "INDEX"   -> WithChildren(w, d.locs)
                  [] d.kind = "UNKNOWN" -> w
    BY <1>4
  <2> HIDE DEF w
  <2>3. \/ d.kind = "INDEX" /\ d.locs \in Seq(Urls)
        \/ d.kind = "URLSET" /\ d.locs \in Seq(DOMAIN Identity)
        \/ d.kind = "UNKNOWN" /\ d.locs = <<>>
    BY DiscoveryAssumption
  <2>4. SUFFICES /\ IsWalk(walk') /\ walk'.seen = w.seen /\ walk'.read = w.read
                 /\ w.candidates \subseteq walk'.candidates
                 /\ \A u : Known(w, u) => Known(walk', u)
                 /\ ~walk'.limit => ~w.limit /\ Accounted(walk', d)
    <3>1. ASSUME /\ w.candidates \subseteq walk'.candidates
                 /\ \A u : Known(w, u) => Known(walk', u),
                 NEW e \in walk.read, Accounted(walk, e)
          PROVE  Accounted(walk', e)
      BY <2>1, <3>1, AccountedStays
    <3> QED  BY <2>1, <3>1 DEF WalkInv
  <2>5. CASE d.kind = "URLSET" /\ d.locs \in Seq(DOMAIN Identity)
    <3>1. walk' = WithPages(w, d.locs)
      BY <2>2, <2>5
    <3>2. /\ IsWalk(walk')
          /\ walk'.queue = w.queue /\ walk'.seen = w.seen /\ walk'.read = w.read
          /\ w.candidates \subseteq walk'.candidates
          /\ ~walk'.limit => /\ ~w.limit
                             /\ \A i \in DOMAIN d.locs :
                                   SameHost(d.locs[i]) => Identity[d.locs[i]] \in walk'.candidates
      BY <2>1, <2>5, <3>1, PagesTold
    <3> QED  BY <2>5, <3>2 DEF Known, Accounted
  <2>6. CASE d.kind = "INDEX" /\ d.locs \in Seq(Urls)
    <3>1. walk' = WithChildren(w, d.locs)
      BY <2>2, <2>6
    <3>2. /\ IsWalk(walk')
          /\ walk'.candidates = w.candidates /\ walk'.seen = w.seen /\ walk'.read = w.read
          /\ \A u : Known(w, u) => Known(walk', u)
          /\ ~walk'.limit => /\ ~w.limit
                             /\ \A i \in DOMAIN d.locs :
                                   SameHost(d.locs[i]) => Known(walk', d.locs[i])
      BY <2>1, <2>6, <3>1, ChildrenTold
    <3> QED  BY <2>6, <3>2 DEF Accounted
  <2>7. CASE d.kind = "UNKNOWN" /\ d.locs = <<>>
    <3>1. walk' = w
      BY <2>2, <2>7
    <3> QED  BY <2>1, <2>7, <3>1 DEF Accounted
  <2> QED  BY <2>3, <2>5, <2>6, <2>7
<1> QED  BY <1>3, <1>4 DEF SitemapAnswer

\* The next entry of the queue is dropped, because there is no need for it or because it is
\* asked for.
LEMMA NextTaken ==
    ASSUME BeginInv, WalkInv, walk.queue # <<>>,
           NEW v, IsWalk(v), v.queue = Tail(walk.queue), v.candidates = walk.candidates,
           walk.seen \subseteq v.seen, SameHost(NextUrl) => NextUrl \in v.seen,
           NEW d, Accounted(walk, d)
    PROVE  Accounted(v, d)
<1>1. ASSUME NEW u, SameHost(u), Known(walk, u) PROVE Known(v, u)
  BY <1>1, QueueHead DEF Known
<1> QED  BY <1>1, AccountedStays

LEMMA WalkStarts == DiscoveryInit => DiscoveryTypeOK /\ WalkInv
<1> SUFFICES ASSUME DiscoveryInit PROVE DiscoveryTypeOK /\ WalkInv
  OBVIOUS
<1>1. IsRobots(robots)
  <2>1. "https" \in Schemes /\ 1 \in 1..3 /\ {} \in SUBSET Try /\ <<>> \in Seq(Urls)
    BY DEF Schemes
  <2> QED  BY <2>1 DEF DiscoveryInit, IsRobots
<1>2. IsWalk(walk)
  <2>1. /\ 0 \in 0..MaxDepth /\ {} \in SUBSET Urls /\ {} \in SUBSET DOMAIN Identity
        /\ {} \in SUBSET (Documents \cup Lists) /\ <<>> \in Seq(Entry)
    BY DiscoveryAssumption
  <2> QED  BY <2>1 DEF DiscoveryInit, IsWalk
<1>3. WalkInv
  BY FS_EmptySet DEF DiscoveryInit, WalkInv
<1> QED  BY <1>1, <1>2, <1>3 DEF DiscoveryTypeOK, DiscoveryInit, IsRobots, IsWalk

\* Every step keeps the types of the crawl's own state and what the walk has to say.
LEMMA WalkSteps ==
    ASSUME BeginInv, WalkInv, [DiscoveryNext]_<<discovery, vars>>
    PROVE  DiscoveryTypeOK' /\ WalkInv'
<1>1. IsWalk(walk) /\ IsRobots(robots)
  BY DEF BeginInv, DiscoveryTypeOK, IsWalk, IsRobots
<1>2. ASSUME UNCHANGED <<robots, walk>>, stage' \in {stage, "robots", "stopped"}
      PROVE  DiscoveryTypeOK' /\ WalkInv'
  BY <1>2 DEF BeginInv, DiscoveryTypeOK, WalkInv, Accounted, Known
<1>3. CASE AskRobots \/ Stop \/ Fetch \/ UNCHANGED <<discovery, vars>>
  BY <1>2, <1>3 DEF AskRobots, Stop, Fetch, discovery
<1>4. CASE RobotsAnswer
  <2>1. DiscoveryTypeOK' /\ walk' = walk
    BY <1>4, RobotsAnswerType
  <2>2. stage' = "over" => robots'.policy # "OK"
    <3>1. ASSUME NEW policy \in {"OK", "DENIED", "UNAVAILABLE"}, NEW next, Decided(policy, next)
          PROVE  stage' = next /\ robots'.policy = policy
      BY <1>1, <3>1 DEF Decided, IsRobots
    <3> QED
      BY <1>4, <3>1 DEF RobotsAnswer, RobotsRead, NoRobots, RobotsDenied, RobotsUnusable, AskAgain
  <2> QED  BY <2>1, <2>2 DEF WalkInv, Accounted, Known
<1>5. CASE StartWalk
  <2>1. /\ DiscoveryTypeOK' /\ walk'.seen = walk.seen
        /\ \A d \in walk'.read : Accounted(walk', d)
    BY <1>5, StartWalkTells
  <2> QED  BY <1>5, <2>1 DEF WalkInv, StartWalk
<1>6. CASE SkipSitemap
  <2>1. /\ walk' = [walk EXCEPT !.queue = Tail(walk.queue)] /\ walk.queue # <<>>
        /\ UNCHANGED robots /\ stage' = stage /\ stage = "next"
    BY <1>6 DEF SkipSitemap, MoreToWalk
  <2>2. /\ IsWalk(walk') /\ walk'.queue = Tail(walk.queue) /\ walk'.seen = walk.seen
        /\ walk'.candidates = walk.candidates /\ walk'.limit = walk.limit /\ walk'.read = walk.read
    BY <1>1, <2>1, QueueHead DEF IsWalk
  <2>3. SameHost(NextUrl) => NextUrl \in walk.seen
    BY <1>6 DEF SkipSitemap, Skipped
  <2>4. \A d : Accounted(walk, d) => Accounted(walk', d)
    BY <2>1, <2>2, <2>3, NextTaken
  <2> QED  BY <1>1, <2>1, <2>2, <2>4 DEF WalkInv, BeginInv, DiscoveryTypeOK, IsWalk
<1>7. CASE AskSitemap
  <2>1. /\ walk' = [walk EXCEPT !.queue = Tail(walk.queue), !.depth = Head(walk.queue).depth,
                                !.seen = walk.seen \cup {NextUrl}]
        /\ walk.queue # <<>> /\ UNCHANGED robots /\ stage' = "sitemap"
    BY <1>7 DEF AskSitemap, MoreToWalk
  <2>2. /\ IsWalk(walk') /\ walk'.queue = Tail(walk.queue)
        /\ walk'.seen = walk.seen \cup {NextUrl}
        /\ walk'.candidates = walk.candidates /\ walk'.limit = walk.limit /\ walk'.read = walk.read
    <3>1. walk.seen \cup {NextUrl} \in SUBSET Urls
      BY <1>1, <2>1, QueueHead DEF IsWalk
    <3> QED  BY <1>1, <2>1, <3>1, QueueHead DEF IsWalk
  <2>3. \A d : Accounted(walk, d) => Accounted(walk', d)
    BY <2>1, <2>2, NextTaken
  <2>4. IsFiniteSet(walk'.seen)
    BY <2>2, FS_AddElement DEF WalkInv
  <2> QED  BY <1>1, <2>1, <2>2, <2>3, <2>4 DEF WalkInv, BeginInv, DiscoveryTypeOK, IsWalk
<1>8. CASE SitemapAnswer
  BY <1>8, SitemapAnswerTells
<1>9. CASE EndWalk
  <2> DEFINE told == walk.limit \/ (walk.queue # <<>> /\ Cardinality(walk.seen) >= MaxDocs)
  <2>1. /\ walk' = [walk EXCEPT !.limit = told] /\ ~MoreToWalk
        /\ UNCHANGED robots /\ stage' = "over"
    BY <1>1, <1>9 DEF EndWalk, IsWalk
  <2>2. Cardinality(walk.seen) \in Nat /\ MaxDocs \in Nat
    BY FS_CardinalityType, DiscoveryAssumption DEF WalkInv
  <2>3. told \/ walk.queue = <<>> \/ ~(Cardinality(walk.candidates) < MaxCandidates)
    BY <2>1, <2>2 DEF MoreToWalk
  <2>4. told \in BOOLEAN /\ (walk.limit => told)
    OBVIOUS
  <2> HIDE DEF told
  <2>5. /\ IsWalk(walk') /\ walk'.queue = walk.queue /\ walk'.seen = walk.seen
        /\ walk'.candidates = walk.candidates /\ walk'.limit = told /\ walk'.read = walk.read
    BY <1>1, <2>1, <2>4 DEF IsWalk
  <2>6. \A d : Accounted(walk, d) => Accounted(walk', d)
    BY <2>5 DEF Accounted, Known
  <2> QED  BY <1>1, <2>1, <2>3, <2>4, <2>5, <2>6 DEF WalkInv, BeginInv, DiscoveryTypeOK, IsWalk
<1> QED  BY <1>3, <1>4, <1>5, <1>6, <1>7, <1>8, <1>9 DEF DiscoveryNext, Proceed

\* Every step keeps what the calls keep: each of them begins with a URL.
LEMMA CallsStep == BeginInv /\ [DiscoveryNext]_<<discovery, vars>> => CallsInv'
<1> SUFFICES ASSUME BeginInv, [DiscoveryNext]_<<discovery, vars>> PROVE CallsInv'
  OBVIOUS
<1>1. CASE AskRobots
  <2>1. RobotsAt[robots.scheme] \in Urls
    BY DiscoveryAssumption DEF BeginInv, DiscoveryTypeOK
  <2> QED  BY <1>1, <2>1, FreshCallNext DEF AskRobots, Ask, Fresh
<1>2. CASE AskSitemap
  BY <1>2, QueueHead, FreshCallNext DEF AskSitemap, MoreToWalk, Ask, Fresh
<1>3. CASE RobotsAnswer \/ SitemapAnswer
  <2>1. RobotsAt["https"] \in Urls
    BY DiscoveryAssumption DEF Schemes
  <2> QED  BY <1>3, <2>1, FreshCallNext DEF RobotsAnswer, SitemapAnswer, GotAnswer, Idle, Fresh
<1>4. ASSUME [Next]_vars PROVE CallsInv'
  BY <1>4, NextType, NextTells, NextVetted DEF BeginInv, CallsInv
<1>5. CASE StartWalk \/ SkipSitemap \/ EndWalk \/ Stop \/ UNCHANGED <<discovery, vars>>
  BY <1>4, <1>5 DEF StartWalk, SkipSitemap, EndWalk, Stop, vars
<1>6. CASE Fetch
  BY <1>4, <1>6 DEF Fetch
<1> QED  BY <1>1, <1>2, <1>3, <1>5, <1>6 DEF DiscoveryNext, Proceed

\* What every state of a crawl's beginning satisfies.
LEMMA BeginInvariant == DiscoverySpec => [](BeginInv /\ WalkInv)
<1>1. DiscoveryInit => BeginInv /\ WalkInv
  <2> SUFFICES ASSUME DiscoveryInit PROVE CallsInv
    BY WalkStarts DEF BeginInv
  <2>1. /\ fetch = Calling("done", RobotsAt["https"]) /\ result = NoResult /\ requests = <<>>
        /\ RobotsAt["https"] \in Urls
    BY DiscoveryAssumption DEF DiscoveryInit, Idle, Schemes
  <2> QED  BY <2>1, FreshCall DEF Fresh
<1>2. BeginInv /\ WalkInv /\ [DiscoveryNext]_<<discovery, vars>> => (BeginInv /\ WalkInv)'
  BY WalkSteps, CallsStep DEF BeginInv
<1> QED  BY <1>1, <1>2, PTL DEF DiscoverySpec

\* The types of a crawl's beginning and of its calls hold in every behaviour.
THEOREM DiscoveryTypeCorrect == DiscoverySpec => [](DiscoveryTypeOK /\ TypeOK)
<1>1. BeginInv => DiscoveryTypeOK /\ TypeOK
  BY DEF BeginInv, CallsInv
<1> QED  BY <1>1, BeginInvariant, PTL

\* Of every request of a crawl's beginning the result tells what happened on the wire.
THEOREM WalkTellsTheRequests == DiscoverySpec => []ResultTellsTheRequests
<1>1. BeginInv => ResultTellsTheRequests
  BY DEF BeginInv, CallsInv, ChainInv
<1> QED  BY <1>1, BeginInvariant, PTL

\* A walk that was cut short says so, whatever the sitemaps list and whatever the limits.
THEOREM TruncationIsAlwaysTold == DiscoverySpec => []TruncationIsTold
<1>1. WalkInv => TruncationIsTold
  BY DEF WalkInv, TruncationIsTold, Accounted, Known
<1> QED  BY <1>1, BeginInvariant, PTL
=============================================================================
