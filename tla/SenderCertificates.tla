------------------------ MODULE SenderCertificates ------------------------
(* SignalSenderCertificateService (src/src/certificates.ts): get() joins   *)
(* the fetch that is in flight for its account and mode, or starts one: a  *)
(* certificate cached in the account record if it is fresh, else one from  *)
(* the server over a connection of its own, which is then cached by        *)
(* reading the account and, after an await, writing it back.  Composed     *)
(* with DeviceLinking over one file repository: a linking may replace the  *)
(* account under a fetch, and also in that await.  The certificate's bytes, *)
(* its expiry and the socket's envelopes are left out; whether a cached    *)
(* certificate is still fresh is open.                                     *)
EXTENDS DeviceLinking

CONSTANTS
  Requests,     \* calls of get(), each once
  HostCalls     \* calls of other setters by the host

VARIABLES
  request,      \* the calls of get()
  fetch,        \* the fetch in flight for each account and mode
  crossed,      \* history: a linking replaced the account under a fetch
  overlapped    \* history: it did so while a fetch held the account it read

historyVars == <<crossed, overlapped>>
certificateVars == <<request, fetch, historyVars>>

Keys == (1 .. MaxLinks) \X Modes
NoKey == <<0, "with-e164">>
(* Where a fetch is, for which request, whether it goes well, and the      *)
(* account that it has read to write back.                                 *)
NoFetch == [pc |-> "none", by |-> "none", ok |-> TRUE, account |-> Account(0)]
CertificateCall(r) == <<"certificate", r>>
DeviceCalls == LinkCalls \cup {CertificateCall(r) : r \in Requests} \cup HostCalls

ASSUME CertificateAssumption == DeviceCalls \subseteq Calls

CertificateTypeOK ==
  /\ \A r \in Requests :
       /\ request[r].pc \in {"idle", "waiting", "done"}
       /\ request[r].key \in Keys \cup {NoKey}
       /\ request[r].got \in Keys \cup {NoKey, <<0, "without-e164">>}
  /\ \A k \in Keys :
       /\ fetch[k].pc \in {"none", "connect", "get", "cache", "persist", "disconnect"}
       /\ fetch[k].account.owner \in 0 .. MaxLinks
  /\ crossed \in BOOLEAN /\ overlapped \in BOOLEAN

CertificateInit ==
  /\ request = [r \in Requests |-> [pc |-> "idle", key |-> NoKey, got |-> NoKey]]
  /\ fetch = [k \in Keys |-> NoFetch]
  /\ crossed = FALSE /\ overlapped = FALSE

Cached(m) == AccountAt(memory).certificates[m]

(* Everyone who waits for the fetch gets what it got; the entry goes.      *)
Finish(k, got) ==
  /\ request' = [r \in Requests |->
       IF request[r].pc = "waiting" /\ request[r].key = k
         THEN [request[r] EXCEPT !.pc = "done", !.got = got] ELSE request[r]]
  /\ fetch' = [fetch EXCEPT ![k] = NoFetch]

(* get() for the account the repository holds: join, or read the cache and *)
(* connect when it has no fresh certificate.                               *)
Get(r, m) ==
  LET k == <<AccountAt(memory).owner, m>> IN
  /\ repository = "open"
  /\ request[r].pc = "idle"
  /\ k \in Keys
  /\ \/ /\ fetch[k].pc # "none"
        /\ request' = [request EXCEPT ![r] = [pc |-> "waiting", key |-> k, got |-> NoKey]]
        /\ UNCHANGED fetch
     \/ /\ fetch[k].pc = "none"
        /\ Cached(m)[1] # 0
        /\ request' = [request EXCEPT ![r] = [pc |-> "done", key |-> k, got |-> Cached(m)]]
        /\ UNCHANGED fetch
     \/ /\ fetch[k].pc = "none"
        /\ request' = [request EXCEPT ![r] = [pc |-> "waiting", key |-> k, got |-> NoKey]]
        /\ fetch' = [fetch EXCEPT ![k].pc = "connect", ![k].by = r]
  /\ UNCHANGED <<vars, sessionVars, linkVars, historyVars>>

CertificateConnects(k) ==
  /\ fetch[k].pc = "connect"
  /\ \/ /\ fetch' = [fetch EXCEPT ![k].pc = "get"]
        /\ UNCHANGED request
     \/ Finish(k, NoKey)
  /\ UNCHANGED <<vars, sessionVars, linkVars, historyVars>>

(* Seeded fault: the account the fetch was started for is written back.    *)
CertificateArrivesStale(k) ==
  /\ fetch[k].pc = "get"
  /\ fetch' = [fetch EXCEPT ![k].pc = "cache", ![k].account = Account(k[1])]
  /\ UNCHANGED <<vars, sessionVars, linkVars, request, historyVars>>

(* The certificate goes into whatever account the repository holds now.    *)
CertificateArrives(k) ==
  /\ fetch[k].pc = "get"
  /\ AccountAt(memory).owner # 0
  /\ fetch' = [fetch EXCEPT ![k].pc = "cache", ![k].account = AccountAt(memory)]
  /\ UNCHANGED <<vars, sessionVars, linkVars, request, historyVars>>

(* The account that was read is back from getAccount(), and is written.    *)
CachesCertificate(k) ==
  /\ fetch[k].pc = "cache"
  /\ Write(CertificateCall(fetch[k].by), "account")
  /\ accounts' = [accounts EXCEPT ![clock'] =
                    [fetch[k].account EXCEPT !.certificates[k[2]] = k]]
  /\ fetch' = [fetch EXCEPT ![k].pc = "persist", ![k].account = Account(0)]
  /\ UNCHANGED <<sessionVars, attempt, link, linkSocket, outcome, linked,
                 request, historyVars>>

(* A failed request, or an answer that is no fresh certificate.            *)
CertificateFails(k) ==
  /\ fetch[k].pc = "get"
  /\ fetch' = [fetch EXCEPT ![k].pc = "disconnect", ![k].ok = FALSE]
  /\ UNCHANGED <<vars, sessionVars, linkVars, request, historyVars>>

(* A cache write that fails fails the whole fetch.                         *)
CachePersisted(k) ==
  /\ fetch[k].pc = "persist"
  /\ call[CertificateCall(fetch[k].by)].pc \in {"resolved", "rejected"}
  /\ fetch' = [fetch EXCEPT ![k].pc = "disconnect",
                 ![k].ok = call[CertificateCall(fetch[k].by)].pc = "resolved"]
  /\ UNCHANGED <<vars, sessionVars, linkVars, request, historyVars>>

CertificateDisconnects(k) ==
  /\ fetch[k].pc = "disconnect"
  /\ \E disconnects \in BOOLEAN :
       Finish(k, IF fetch[k].ok /\ disconnects THEN k ELSE NoKey)
  /\ UNCHANGED <<vars, sessionVars, linkVars, historyVars>>

FetchStep(k) ==
  \/ CertificateConnects(k) \/ CertificateArrives(k) \/ CertificateFails(k)
  \/ CachesCertificate(k) \/ CachePersisted(k) \/ CertificateDisconnects(k)

-----------------------------------------------------------------------------
(* The composition                                                         *)

deviceVars == <<vars, sessionVars, linkVars, certificateVars>>

DeviceInit == Init /\ LinkInit /\ CertificateInit

StoresAccount == link' = "account" /\ link # "account"

Linking ==
  /\ NewSession \/ BeginLinking \/ LinkStep
  /\ crossed' = (crossed \/ (StoresAccount /\ \E k \in Keys : fetch[k].pc # "none"))
  /\ overlapped' = (overlapped
                     \/ (StoresAccount /\ \E k \in Keys : fetch[k].pc = "cache"))
  /\ UNCHANGED <<request, fetch>>

DeviceStops ==
  /\ DeviceCrash
  /\ request' = [r \in Requests |->
       IF request[r].pc = "waiting" THEN [request[r] EXCEPT !.pc = "done"]
                                    ELSE request[r]]
  /\ fetch' = [k \in Keys |-> NoFetch]
  /\ UNCHANGED historyVars

DeviceNext ==
  \/ Linking
  \/ \E r \in Requests, m \in Modes : Get(r, m)
  \/ \E k \in Keys : FetchStep(k)
  \/ (SessionStep \/ StoreStep \/ \E c \in HostCalls : HostSaves(c))
       /\ UNCHANGED certificateVars
  \/ DeviceStops

DeviceSpec == DeviceInit /\ [][DeviceNext]_deviceVars

(* Files, timers and the calls' own continuations go on; servers answer or *)
(* the request times out.                                                  *)
FairDevice ==
  /\ DeviceSpec
  /\ WF_deviceVars(Persisting /\ UNCHANGED <<sessionVars, linkVars, certificateVars>>)
  /\ WF_deviceVars(Linking /\ link \notin {"idle", "done"})
  /\ SessionFairness

-----------------------------------------------------------------------------
(* Properties                                                              *)

DeviceTypeOK == TypeOK /\ SessionTypeOK /\ LinkTypeOK /\ CertificateTypeOK

(* The account in memory and in the state file never goes back to that of  *)
(* an earlier linking: a cache write at the end of a fetch does not undo a *)
(* linking that ended while the certificate was on its way.  But for one   *)
(* case: the linking stores its account between a cache write's getAccount *)
(* and setAccount, one microtask apart (writeCachedCertificate).           *)
Owner(contents) == AccountAt(contents).owner

OwnersGoForward ==
  /\ file'.kind = "whole" => Owner(file.of)' >= Owner(file.of)
  /\ repository = "open" /\ repository' = "open" => Owner(memory)' >= Owner(memory)

NeverBackToOldAccount == [][~overlapped' => OwnersGoForward]_deviceVars

(* Unless a linking replaced the account while a certificate was being     *)
(* fetched for the old one, nobody is given a certificate of another       *)
(* account or mode, from the cache or from a fetch joined.                 *)
CertificatesAreOwn ==
  ~crossed => \A r \in Requests :
    request[r].got[1] # 0 => request[r].got = request[r].key

=============================================================================
