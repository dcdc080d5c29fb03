------------------------------- MODULE FeedFetch -------------------------------
(***************************************************************************)
(* What one fetch of a feed does between its start and its save: the hops  *)
(* of the HTTP client, with the answers of the DNS changing under it, the  *)
(* limits on the response, the parse, and the ingestion of the items.      *)
(*                                                                         *)
(* A target is abstracted to what validateRemoteURL and resolveAllowed     *)
(* tell apart; a document to its items, an item to its identity and hash.  *)
(* With a proxy configured every dial goes to the proxy.                   *)
(***************************************************************************)
EXTENDS Integers, Sequences

CONSTANTS Hosts,         \* host names a feed or a redirect may name
          Documents,     \* the documents upstream may serve: sequences of items
          MaxRedirects,  \* 5
          MaxItems,      \* 500
          MaxFetches     \* bound on the fetches

FeedFetchAssumption ==
  /\ MaxRedirects \in Nat /\ MaxItems \in Nat /\ MaxFetches \in Nat
  /\ \A d \in Documents : d \in Seq({d[i] : i \in DOMAIN d})

VARIABLES proxied,   \* VELIS_FEED_PROXY_URL is set
          dns,       \* what each host name resolves to now
          phase,     \* of the fetch under way
          target,    \* the URL of the hop under way
          hops,      \* requests sent for this fetch
          reached,   \* the kinds of address ever connected to
          outcome,   \* the code of the last fetch
          articles,  \* item identity -> hash and number of the current revision
          report,    \* IngestReport of the last fetch
          document,  \* the document of the last ingestion
          fetches    \* fetches begun

vars == <<proxied, dns, phase, target, hops, reached, outcome, articles, report, document,
          fetches>>

Addresses == {"public", "restricted"}    \* isRestrictedIP
Codes == {"none", "ok", "not_modified", "INVALID_URL", "SSRF_BLOCKED", "DNS_FAILED",
          "CONNECT_FAILED", "TOO_MANY_REDIRECTS", "FETCH_TIMEOUT", "HTTP_STATUS",
          "READ_FAILED", "RESPONSE_TOO_LARGE", "PARSE_FAILED", "FETCH_FAILED"}

(* A URL: an address other than a plain one of a known host is refused.    *)
Targets == [kind : {"host"}, host : Hosts]
             \cup [kind : {"malformed", "port", "restricted_literal"}, host : {"none"}]
NoTarget == [kind |-> "none", host |-> "none"]

(* id is "none" where the item has neither a GUID nor a usable link.       *)
Identities == (UNION {{d[i].id : i \in DOMAIN d} : d \in Documents}) \ {"none"}
Hashes     == UNION {{d[i].hash : i \in DOMAIN d} : d \in Documents}
Article    == [hash : Hashes \cup {"none"}, revision : Nat]
Report     == [inserted : Nat, updated : Nat, unchanged : Nat, skipped : Nat]
NoArticle  == [hash |-> "none", revision |-> 0]
NoReport   == [inserted |-> 0, updated |-> 0, unchanged |-> 0, skipped |-> 0]

(* validateRemoteURL: "ok" or the code of the refusal.                     *)
Verdict(u) ==
  CASE u.kind = "malformed" -> "INVALID_URL"
    [] u.kind \in {"port", "restricted_literal"} -> "SSRF_BLOCKED"
    [] OTHER -> "ok"

(* A URL is only ever requested once it was validated, redirect or not.    *)
TypeOK ==
  /\ proxied \in BOOLEAN
  /\ dns \in [Hosts -> SUBSET Addresses]
  /\ phase \in {"idle", "dial", "respond"}
  /\ target \in Targets \cup {NoTarget}
  /\ phase # "idle" => target \in Targets /\ Verdict(target) = "ok"
  /\ hops \in Nat
  /\ reached \subseteq Addresses
  /\ outcome \in Codes
  /\ articles \in [Identities -> Article]
  /\ report \in Report
  /\ document \in Documents \cup {<<>>}
  /\ fetches \in 0..MaxFetches

Init ==
  /\ proxied \in BOOLEAN
  /\ dns = [h \in Hosts |-> {"public"}]
  /\ phase = "idle" /\ target = NoTarget /\ hops = 0 /\ reached = {} /\ outcome = "none"
  /\ articles = [id \in Identities |-> NoArticle]
  /\ report = NoReport /\ document = <<>> /\ fetches = 0

-----------------------------------------------------------------------------
(***************************************************************************)
(* The hops.                                                               *)
(***************************************************************************)
(* The resolver is not the program's: a name may answer otherwise at the   *)
(* next lookup, or not at all.                                             *)
Rebind(h, answer) ==
  /\ dns' = [dns EXCEPT ![h] = answer]
  /\ UNCHANGED <<proxied, phase, target, hops, reached, outcome, articles, report, document, fetches>>

(* Mutant: one usable address is enough.                                   *)
LookupAny(h) == IF dns[h] = {} THEN "DNS_FAILED" ELSE "ok"

(* resolveAllowed: one restricted address refuses the name.                *)
Lookup(h) ==
  CASE dns[h] = {} -> "DNS_FAILED"
    [] "restricted" \in dns[h] -> "SSRF_BLOCKED"
    [] OTHER -> "ok"

End(code) ==
  /\ phase' = "idle" /\ outcome' = code /\ target' = NoTarget

Request(u) == /\ phase' = "dial" /\ target' = u /\ UNCHANGED outcome

Fetch(u) ==
  /\ phase = "idle" /\ fetches < MaxFetches /\ fetches' = fetches + 1
  /\ hops' = 0
  /\ IF Verdict(u) = "ok" THEN Request(u) ELSE End(Verdict(u))
  /\ UNCHANGED <<proxied, dns, reached, articles, report, document>>

(* safeDialContext resolves again, whatever an earlier hop had resolved;   *)
(* of the addresses that are all allowed, the first to answer is used.     *)
Dial ==
  /\ phase = "dial"
  /\ \/ /\ proxied
        /\ phase' = "respond" /\ hops' = hops + 1 /\ UNCHANGED <<reached, outcome, target>>
     \/ /\ ~proxied /\ Lookup(target.host) = "ok"
        /\ \E a \in dns[target.host] : reached' = reached \cup {a}
        /\ phase' = "respond" /\ hops' = hops + 1 /\ UNCHANGED <<outcome, target>>
     \/ /\ ~proxied /\ Lookup(target.host) # "ok"
        /\ End(Lookup(target.host)) /\ UNCHANGED <<hops, reached>>
     \/ /\ End("CONNECT_FAILED") /\ UNCHANGED <<hops, reached>>
  /\ UNCHANGED <<proxied, dns, articles, report, document, fetches>>

(* Mutant: the hops are counted after the request is sent.                 *)
MayFollowOneMore == hops <= MaxRedirects + 1

(* CheckRedirect: len(via) is the requests sent so far.                    *)
MayFollow == hops <= MaxRedirects

(* Mutant: the URL of a redirect is followed as it is.                     *)
RedirectAnywhere(u) ==
  /\ phase = "respond"
  /\ IF ~MayFollow THEN End("TOO_MANY_REDIRECTS") ELSE Request(u)
  /\ UNCHANGED <<proxied, dns, hops, reached, articles, report, document, fetches>>

Redirect(u) ==
  /\ phase = "respond"
  /\ IF ~MayFollow THEN End("TOO_MANY_REDIRECTS")
     ELSE IF Verdict(u) = "ok" THEN Request(u) ELSE End(Verdict(u))
  /\ UNCHANGED <<proxied, dns, hops, reached, articles, report, document, fetches>>

(* The 20 seconds of the fetch run out, dialling or reading.               *)
TimeOut ==
  /\ phase # "idle" /\ End("FETCH_TIMEOUT")
  /\ UNCHANGED <<proxied, dns, hops, reached, articles, report, document, fetches>>

(* A response without a document of use.                                   *)
Refuse(code) ==
  /\ phase = "respond" /\ End(code)
  /\ UNCHANGED <<proxied, dns, hops, reached, articles, report, document, fetches>>

-----------------------------------------------------------------------------
(***************************************************************************)
(* The document.                                                           *)
(***************************************************************************)
(* Parse keeps the first items.                                            *)
Parsed(d) == SubSeq(d, 1, IF Len(d) < MaxItems THEN Len(d) ELSE MaxItems)

(* Mutant: an item seen before is always a new revision.                   *)
UpsertAlways(acc, item) ==
  LET known == acc.articles[item.id] IN
  [articles |-> [acc.articles EXCEPT
                   ![item.id] = [hash |-> item.hash, revision |-> known.revision + 1]],
   report |-> IF known.revision = 0 THEN [acc.report EXCEPT !.inserted = @ + 1]
                                    ELSE [acc.report EXCEPT !.updated = @ + 1]]

(* upsertRSSArticle: an identity is inserted, revised or seen unchanged.   *)
Upsert(acc, item) ==
  LET known == acc.articles[item.id] IN
  IF known.hash = item.hash
  THEN [acc EXCEPT !.report.unchanged = @ + 1]
  ELSE [articles |-> [acc.articles EXCEPT
                        ![item.id] = [hash |-> item.hash, revision |-> known.revision + 1]],
        report |-> IF known.revision = 0 THEN [acc.report EXCEPT !.inserted = @ + 1]
                                         ELSE [acc.report EXCEPT !.updated = @ + 1]]

(* candidate() skips an item without a link or an identity.                *)
Take(acc, item) ==
  IF item.id = "none" THEN [acc EXCEPT !.report.skipped = @ + 1] ELSE Upsert(acc, item)

(* Ingest takes the items in the order of the feed.                        *)
After(known, kept) ==
  LET acc[k \in 0..Len(kept)] ==
        IF k = 0 THEN [articles |-> known, report |-> NoReport] ELSE Take(acc[k - 1], kept[k])
  IN acc[Len(kept)]

Ingested(d) == After(articles, Parsed(d))

Ingest(d) ==
  /\ phase = "respond" /\ End("ok")
  /\ articles' = Ingested(d).articles /\ report' = Ingested(d).report /\ document' = d
  /\ UNCHANGED <<proxied, dns, hops, reached, fetches>>

Resolve == \E h \in Hosts, answer \in SUBSET Addresses : Rebind(h, answer)
Send    == \E u \in Targets : Fetch(u)
Follow  == \E u \in Targets : Redirect(u)
Answer  ==
  \/ \E code \in {"not_modified", "HTTP_STATUS", "READ_FAILED", "RESPONSE_TOO_LARGE",
                  "PARSE_FAILED", "FETCH_FAILED"} : Refuse(code)
  \/ \E d \in Documents : Ingest(d)

Next == Resolve \/ Send \/ Dial \/ Follow \/ TimeOut \/ Answer

Spec == Init /\ [][Next]_vars

-----------------------------------------------------------------------------
(***************************************************************************)
(* Properties.                                                             *)
(***************************************************************************)
(* Without a proxy the program only ever connects to public addresses,     *)
(* however the answers of the DNS change between validation, redirects and *)
(* connections. (safeDialContext, resolveAllowed.)                         *)
OnlyPublicReached == ~proxied => "restricted" \notin reached

(* At most MaxRedirects redirects are followed, and a fetch is refused for *)
(* them only when it followed that many. (CheckRedirect.)                  *)
RedirectBudget ==
  /\ hops <= MaxRedirects + 1
  /\ outcome = "TOO_MANY_REDIRECTS" => hops = MaxRedirects + 1 \/ phase # "idle"

(* Upstream serving the same document again changes nothing, when no two   *)
(* of its items share an identity; and every item kept is accounted for.   *)
(* (upsertRSSArticle, Ingest, Parse.)                                      *)
SameDocumentUnchanged ==
  LET kept == Parsed(document)
      named == {i \in DOMAIN kept : kept[i].id # "none"}
      distinct == \A i, j \in named : kept[i].id = kept[j].id => i = j
  IN /\ distinct => \A i \in named : articles[kept[i].id].hash = kept[i].hash
     /\ distinct => Ingested(document).articles = articles
     /\ report.inserted + report.updated + report.unchanged + report.skipped = Len(kept)
=============================================================================
