------------------------------ MODULE SafeFetch ------------------------------
(***************************************************************************)
(* One call of safeFetch: the hops from a URL over its redirects to an     *)
(* answer, with the checks that precede every connection, and the capped   *)
(* read of the body.                                                       *)
(*                                                                         *)
(* DNS and the site are the environment: a name resolves to something else *)
(* every time it is asked for, an answer redirects anywhere, a body is as  *)
(* long as the site likes, and any wait may end in a timeout or an error.  *)
(***************************************************************************)
EXTENDS AddressClasses, Sequences

CONSTANTS
    Hosts,         \* host names
    Scope,         \* the host name of the project
    Localhosts,    \* localhost and the names below it, with or without a final dot
    Addresses,     \* the addresses DNS may answer with
    LiteralOf,     \* LiteralOf[h]: the address that the host h spells out, if it does
    NoAddress,     \* h is a name
    Urls,          \* what a request or a Location header may ask for
    NoUrl,         \* no URL
    Statuses,      \* the status codes of the site
    MaxRedirects, MaxBody,    \* limits of the crawl policy
    MaxChunk       \* bound: bytes that a chunk unpacks to

ASSUME FetchAssumption ==
    /\ Scope \in Hosts /\ Localhosts \subseteq Hosts
    /\ Addresses \subseteq V4Addresses \cup V6Addresses
    /\ NoAddress \notin V4Addresses \cup V6Addresses
    /\ LiteralOf \in [Hosts -> V4Addresses \cup V6Addresses \cup {NoAddress}]
    /\ NoUrl \notin Urls
    /\ \A u \in Urls : u.host \in Hosts /\ u.long \in BOOLEAN
    /\ Statuses \subseteq Nat \ {0}
    /\ MaxRedirects \in Nat /\ MaxBody \in Nat /\ MaxChunk \in Nat

VARIABLES
    fetch,       \* where the call is: its next step, current URL, redirects, bytes read
    result,      \* the SafeFetchResult under construction
    requests     \* every connection opened so far: for which URL, to which address

vars == <<fetch, result, requests>>

Outcomes == {"HTTP_RESPONSE", "REDIRECT_BLOCKED", "SECURITY_BLOCKED", "SCOPE_BLOCKED",
             "NETWORK_ERROR", "BODY_TOO_LARGE", "TIMEOUT", "REDIRECT_LIMIT"}

Pcs == {"check", "hop", "connect", "answer", "read", "done"}

\* result.body: null, or the number of bytes of the body.
NoBody == -1

Hop     == [url : Urls, status : Statuses, location : Urls]
Request == [url : Urls, address : V4Addresses \cup V6Addresses]

TypeOK ==
    /\ fetch \in [pc : Pcs, current : Urls, redirects : Nat,
                  wire : 0..MaxBody, decoded : 0..MaxBody]
    /\ result \in [outcome : Outcomes, initialStatus : Statuses \cup {0},
                   finalStatus : Statuses \cup {0}, finalUrl : Urls \cup {NoUrl},
                   redirectChain : Seq(Hop), body : 0..MaxBody \cup {NoBody}]
    /\ requests \in Seq(Request)

\* An executor asks for any URL: seeds and links are what users and sites wrote.
Init ==
    /\ \E raw \in Urls :
          fetch = [pc |-> "check", current |-> raw, redirects |-> 0, wire |-> 0, decoded |-> 0]
    /\ result = [outcome |-> "NETWORK_ERROR", initialStatus |-> 0, finalStatus |-> 0,
                 finalUrl |-> NoUrl, redirectChain |-> <<>>, body |-> NoBody]
    /\ requests = <<>>

At(pc) == fetch.pc = pc

Goto(pc) == fetch' = [fetch EXCEPT !.pc = pc]

\* return { ...result, outcome }.
Return(outcome) ==
    /\ Goto("done")
    /\ result' = [result EXCEPT !.outcome = outcome]

\* What an error that is not of safeFetch's own becomes.
Failures == {"NETWORK_ERROR", "TIMEOUT"}

-----------------------------------------------------------------------------
(* Before a connection. *)

\* assertSafeCrawlUrl: an http or https URL without credentials, on the default
\* port, of a host that is neither local nor a literal that is not public.
SafeUrl(u) ==
    /\ u.scheme \in {"http", "https"}
    /\ ~u.credentials
    /\ u.defaultPort
    /\ u.host \notin Localhosts
    /\ LiteralOf[u.host] # NoAddress => Public(LiteralOf[u.host])

\* The URL that was asked for; a redirect has its checks in Redirected.
Check ==
    /\ At("check")
    /\ UNCHANGED requests
    /\ CASE ~SafeUrl(fetch.current) \/ fetch.current.long -> Return("SECURITY_BLOCKED")
         [] fetch.current.host # Scope -> Return("SCOPE_BLOCKED")
         [] OTHER -> Goto("hop") /\ UNCHANGED result

\* createDnsResolver: a literal is its own answer, a name has any number of
\* addresses, and none if both lookups fail.
Resolved(host) == IF LiteralOf[host] # NoAddress THEN {{LiteralOf[host]}}
                  ELSE SUBSET Addresses

\* A redirect that left the scope is recorded and not followed.
LeaveScope ==
    /\ At("hop")
    /\ fetch.current.host # Scope
    /\ Goto("done")
    /\ result' = [result EXCEPT !.outcome = "REDIRECT_BLOCKED", !.finalUrl = NoUrl]
    /\ UNCHANGED requests

\* validateResolvedAddresses: one address that is not public blocks the hop.
Validated(found) == found # {} /\ \A a \in found : Public(a)

Refusal(found) == IF found = {} THEN "NETWORK_ERROR" ELSE "SECURITY_BLOCKED"

Vet ==
    /\ At("hop")
    /\ fetch.current.host = Scope
    /\ \E found \in Resolved(fetch.current.host) :
          \/ Validated(found) /\ Goto("connect") /\ UNCHANGED result
          \/ ~Validated(found) /\ Return(Refusal(found))
    /\ UNCHANGED requests

-----------------------------------------------------------------------------
(* The connection: the name is resolved once more, by the lookup of the socket. *)

\* Mutation: the lookup of the socket trusts what was vetted before.
DialableUnchecked(found) == found

\* validatedLookup: what the socket may be pinned to.
Dialable(found) == IF \A a \in found : Public(a) THEN found ELSE {}

\* The addresses the socket may be given; node:http asks for no lookup of a literal.
Pinned(host, found) == IF LiteralOf[host] # NoAddress THEN found ELSE Dialable(found)

Connect ==
    /\ At("connect")
    /\ \E found \in Resolved(fetch.current.host) :
         \E address \in Pinned(fetch.current.host, found) :
            requests' = Append(requests, [url |-> fetch.current, address |-> address])
    /\ Goto("answer")
    /\ UNCHANGED result

\* The lookup found nothing, or something that is not public.
ConnectRefused ==
    /\ At("connect")
    /\ LiteralOf[fetch.current.host] = NoAddress
    /\ \E found \in SUBSET Addresses :
          /\ Dialable(found) = {}
          /\ Return(Refusal(found))
    /\ UNCHANGED requests

\* The transport rejects: the connection fails or stays idle for too long.
NoAnswer ==
    /\ At("answer")
    /\ \E failure \in Failures : Return(failure)
    /\ UNCHANGED requests

-----------------------------------------------------------------------------
(* The answer. *)

RedirectStatuses == {301, 302, 303, 307, 308}

\* What is recorded of every answer; the first status stays.
Recorded(status) ==
    [result EXCEPT !.initialStatus = IF result.initialStatus = 0 THEN status ELSE @,
                   !.finalStatus = status,
                   !.finalUrl = fetch.current]

\* The hop is in the chain before the limit is looked at.
WithHop(status, location) ==
    [Recorded(status) EXCEPT !.redirectChain =
        Append(@, [url |-> fetch.current, status |-> status, location |-> location])]

\* Mutation: one redirect too many.
MayFollowLate(redirects) == redirects <= MaxRedirects

\* redirects >= maxRedirects ends the fetch.
MayFollow(redirects) == redirects < MaxRedirects

\* A redirect to something that must not be asked for.
RedirectUnsafe(status, location) ==
    /\ ~SafeUrl(location) \/ location.long
    /\ result' = [Recorded(status) EXCEPT !.outcome = "SECURITY_BLOCKED"]
    /\ Goto("done")

RedirectLimit(status, location) ==
    /\ SafeUrl(location) /\ ~location.long
    /\ ~MayFollow(fetch.redirects)
    /\ result' = [WithHop(status, location) EXCEPT !.outcome = "REDIRECT_LIMIT"]
    /\ Goto("done")

\* The loop goes on with the target; its scope is checked at the next hop.
Follow(status, location) ==
    /\ SafeUrl(location) /\ ~location.long
    /\ MayFollow(fetch.redirects)
    /\ result' = WithHop(status, location)
    /\ fetch' = [fetch EXCEPT !.pc = "hop", !.current = location, !.redirects = @ + 1]

Redirected ==
    /\ At("answer")
    /\ \E status \in Statuses \cap RedirectStatuses, location \in Urls :
          \/ RedirectUnsafe(status, location)
          \/ RedirectLimit(status, location)
          \/ Follow(status, location)
    /\ UNCHANGED requests

\* Any other answer, and a redirect status without a Location.
Answered ==
    /\ At("answer")
    /\ \E status \in Statuses : result' = Recorded(status)
    /\ Goto("read")
    /\ UNCHANGED requests

-----------------------------------------------------------------------------
(* The body. *)

\* The transport closes the body of every 3xx answer.
HasBody == result.finalStatus < 300 \/ result.finalStatus >= 400

\* Mutation: each chunk is measured on its own.
TotalOfChunk(total, bytes) == bytes

\* total += chunk.byteLength.
Total(total, bytes) == total + bytes

\* Mutation: the cap is noticed one byte late.
TooLargeLate(total) == total > MaxBody + 1

\* total > maxBytes, for the compressed and for the unpacked stream.
TooLarge(total) == total > MaxBody

\* One chunk: decodeBody counts it compressed, readCappedBody unpacked.
ReadChunk ==
    /\ At("read") /\ HasBody
    /\ \E bytes \in 1..MaxChunk, unpacked \in 0..MaxChunk :
          LET wire    == Total(fetch.wire, bytes)
              decoded == Total(fetch.decoded, unpacked)
          IN  IF TooLarge(wire) \/ TooLarge(decoded) THEN Return("BODY_TOO_LARGE")
              ELSE /\ fetch' = [fetch EXCEPT !.wire = wire, !.decoded = decoded]
                   /\ UNCHANGED result
    /\ UNCHANGED requests

\* The stream ended: the chunks are merged.
EndOfBody ==
    /\ At("read")
    /\ Goto("done")
    /\ result' = [result EXCEPT !.outcome = "HTTP_RESPONSE", !.body = fetch.decoded]
    /\ UNCHANGED requests

\* The connection breaks, idles for too long, or the encoding is corrupt.
ReadFails ==
    /\ At("read") /\ HasBody
    /\ \E failure \in Failures : Return(failure)
    /\ UNCHANGED requests

Next ==
    \/ Check \/ LeaveScope \/ Vet
    \/ Connect \/ ConnectRefused \/ NoAnswer
    \/ Redirected \/ Answered
    \/ ReadChunk \/ EndOfBody \/ ReadFails

Spec == Init /\ [][Next]_vars

\* Every await of the call ends: DNS queries and idle sockets time out.
FairSpec == Spec /\ WF_vars(Next)

-----------------------------------------------------------------------------
(* Properties. *)

\* Whatever DNS answers and wherever redirects lead, every connection is made
\* for a URL of the project's host, by a checked URL, to an address outside
\* all reserved blocks (safeFetch, assertSafeCrawlUrl, validatedLookup).
RequestsAreVetted ==
    \A i \in DOMAIN requests :
        /\ requests[i].url.host = Scope /\ SafeUrl(requests[i].url)
        /\ ~Reserved(requests[i].address)

\* The result tells what happened on the wire: the chain is the requests one
\* after the other, at most MaxRedirects were followed, and a body, within the
\* cap, is that of the last URL requested.
ResultTellsTheRequests ==
    LET chain == result.redirectChain
        last  == Len(requests)
    IN  /\ last <= MaxRedirects + 1
        /\ Len(chain) <= last
        /\ \A i \in 1..Len(chain) : chain[i].url = requests[i].url
        /\ \A i \in 2..last : requests[i].url = chain[i - 1].location
        /\ result.body # NoBody <=> At("done") /\ result.outcome = "HTTP_RESPONSE"
        /\ result.body # NoBody =>
              /\ Len(chain) + 1 = last
              /\ result.finalUrl = requests[last].url
              /\ result.body <= MaxBody
        /\ At("done") /\ result.outcome = "REDIRECT_LIMIT" => Len(chain) = MaxRedirects + 1
        /\ At("done") /\ result.outcome = "REDIRECT_BLOCKED" =>
              /\ result.finalUrl = NoUrl
              /\ chain # <<>> /\ chain[Len(chain)].location.host # Scope

\* A fetch ends, although redirects may form a cycle and a body may never end.
FetchEnds == <>At("done")
=============================================================================
