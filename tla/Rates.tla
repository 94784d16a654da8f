------------------------------- MODULE Rates --------------------------------
(***************************************************************************)
(* SiteSettingsService and ExchangeRateService in several instances of the  *)
(* server: the table site_settings, each instance's copy of it, which only   *)
(* its own writes refresh, and the exchange rate each instance keeps for a    *)
(* while.  Settings are small numbers; a rate is multiplied by the margin.  *)
(***************************************************************************)
EXTENDS Naturals, FiniteSets

CONSTANTS
  Servers,    \* the instances
  Writes,     \* setMany requests
  Quotes,     \* getRate requests
  Default,    \* DEFAULT_SETTINGS, restricted to the two settings used here
  Offered,    \* the values an administrator may enter
  Live,       \* the rates the provider may answer
  Keep,       \* EXCHANGE_RATE_CACHE_TTL_MS
  Timeout,    \* the provider's timeout
  Horizon     \* bound on the clock

Keys == {"fallback", "margin"}
Missing == 0

ASSUME SettingAssumption ==
  /\ Default \in [Keys -> Nat \ {Missing}]
  /\ Offered \subseteq Nat \ {Missing} /\ Live \subseteq Nat \ {0}
ASSUME ServerAssumption == Servers # {}
ASSUME RateClockAssumption ==
  {Timeout, Keep, Horizon} \subseteq Nat /\ Timeout < Keep

VARIABLES
  time,      \* the clock
  stored,    \* the table site_settings
  server,    \* each instance: its state, its settings, its cached rate
  write,     \* where each setMany stands, and its entries
  quote,     \* where each getRate stands, and what it read
  committed, \* the values each setting has had in the table
  changed    \* when the margin of each instance's copy last changed

ratesVars == <<time, stored, server, write, quote, committed, changed>>

Values == Offered \union {Default[k] : k \in Keys}
Copies == [Keys -> Values \union {Missing}]
NoRate == [value |-> 0, margin |-> Missing, until |-> 0]
Entries == UNION {[K -> Offered] : K \in SUBSET Keys \ {{}}}

Server == [at: {"down", "seed", "load", "up"}, copy: Copies, unseeded: SUBSET Keys,
           rate: [value: Nat, margin: Values \union {Missing}, until: 0..(Horizon + Keep)]]

(* A question: the instance asked, the settings it read and when, and when it  *)
(* was answered and with which margin.                                      *)
Quote == [at: {"idle", "fetch", "done", "lost"}, on: Servers, read: Copies,
          since: 0..Horizon, told: 0..Horizon, margin: Values \union {Missing}]

RatesTypeOK ==
  /\ time \in 0..Horizon
  /\ stored \in Copies
  /\ server \in [Servers -> Server]
  /\ write \in [Writes -> [at: {"idle", "publish", "done", "failed"}, on: Servers,
                           entries: Entries \union {<<>>}]]
  /\ quote \in [Quotes -> Quote]
  /\ committed \in [Keys -> SUBSET Values]
  /\ changed \in [Servers -> 0..Horizon]

Fresh == [at |-> "down", copy |-> [k \in Keys |-> Missing], unseeded |-> {}, rate |-> NoRate]

RatesInit ==
  LET s0 == CHOOSE s \in Servers : TRUE IN
  /\ time = 0
  /\ stored = [k \in Keys |-> Missing]
  /\ server = [s \in Servers |-> Fresh]
  /\ write = [w \in Writes |-> [at |-> "idle", on |-> s0, entries |-> <<>>]]
  /\ quote = [q \in Quotes |->
       [at |-> "idle", on |-> s0, read |-> Fresh.copy, since |-> 0, told |-> 0,
        margin |-> Missing]]
  /\ committed = [k \in Keys |-> {}]
  /\ changed = [s \in Servers |-> 0]

Overlay(entries, f) == [k \in Keys |-> IF k \in DOMAIN entries THEN entries[k] ELSE f[k]]
Commit(entries) ==
  /\ stored' = Overlay(entries, stored)
  /\ committed' = [k \in Keys |->
       IF k \in DOMAIN entries THEN committed[k] \union {entries[k]} ELSE committed[k]]

(* The copy of instance s becomes f.                                        *)
Refresh(s, state, f) ==
  /\ server' = [server EXCEPT ![s].at = state, ![s].copy = f]
  /\ changed' = IF f["margin"] = server[s].copy["margin"] THEN changed
                ELSE [changed EXCEPT ![s] = time]
-----------------------------------------------------------------------------
(* onModuleInit: which defaults the table lacks.                            *)
Boot(s) ==
  /\ server[s].at = "down"
  /\ server' = [server EXCEPT ![s].at = "seed",
                  ![s].unseeded = {k \in Keys : stored[k] = Missing}]
  /\ UNCHANGED <<time, stored, write, quote, committed, changed>>

(* They are saved, over whatever the table has for them by now.              *)
Seed(s) ==
  /\ server[s].at = "seed"
  /\ Commit([k \in server[s].unseeded |-> Default[k]])
  /\ server' = [server EXCEPT ![s].at = "load"]
  /\ UNCHANGED <<time, write, quote, changed>>

(* Another instance inserted one between save's two queries: the start fails. *)
SeedFails(s) ==
  /\ server[s].at = "seed"
  /\ \E k \in server[s].unseeded : stored[k] # Missing
  /\ server' = [server EXCEPT ![s].at = "down"]
  /\ UNCHANGED <<time, stored, write, quote, committed, changed>>

(* refresh; from here on the instance serves requests.                      *)
Load(s) ==
  /\ server[s].at = "load"
  /\ Refresh(s, "up", stored)
  /\ UNCHANGED <<time, stored, write, quote, committed>>

(* A restart loses the copy, the cached rate and the requests under way.     *)
Stop(s) ==
  /\ server[s].at = "up"
  /\ server' = [server EXCEPT ![s] = Fresh]
  /\ write' = [w \in Writes |-> IF write[w].at = "publish" /\ write[w].on = s
                                  THEN [write[w] EXCEPT !.at = "failed"] ELSE write[w]]
  /\ quote' = [q \in Quotes |-> IF quote[q].at = "fetch" /\ quote[q].on = s
                                  THEN [quote[q] EXCEPT !.at = "lost"] ELSE quote[q]]
  /\ UNCHANGED <<time, stored, committed, changed>>
-----------------------------------------------------------------------------
(* Mutant: the copy is set first.                                           *)
SetManyLate(w, s, entries) ==
  /\ write[w].at = "idle" /\ server[s].at = "up"
  /\ Refresh(s, "up", Overlay(entries, server[s].copy))
  /\ write' = [write EXCEPT ![w] = [at |-> "failed", on |-> s, entries |-> entries]]
  /\ UNCHANGED <<time, stored, quote, committed>>

(* updateSettings and setMany: the rows are saved in one transaction, which   *)
(* may fail, and then set in the copy of the instance that serves the        *)
(* request.                                                                 *)
SetMany(w, s, entries) ==
  /\ write[w].at = "idle" /\ server[s].at = "up"
  /\ \/ /\ Commit(entries)
        /\ write' = [write EXCEPT ![w] = [at |-> "publish", on |-> s, entries |-> entries]]
     \/ /\ write' = [write EXCEPT ![w] = [at |-> "failed", on |-> s, entries |-> entries]]
        /\ UNCHANGED <<stored, committed>>
  /\ UNCHANGED <<time, server, quote, changed>>

Publish(w) ==
  LET s == write[w].on IN
  /\ write[w].at = "publish"
  /\ Refresh(s, "up", Overlay(write[w].entries, server[s].copy))
  /\ write' = [write EXCEPT ![w].at = "done"]
  /\ UNCHANGED <<time, stored, quote, committed>>
-----------------------------------------------------------------------------
Setting(s, k) == IF server[s].copy[k] = Missing THEN Default[k] ELSE server[s].copy[k]

(* getRate finds a rate that has not expired.                               *)
QuoteCached(q, s) ==
  /\ quote[q].at = "idle" /\ server[s].at = "up"
  /\ server[s].rate.until > time
  /\ quote' = [quote EXCEPT ![q].at = "done", ![q].on = s, ![q].told = time,
                            ![q].margin = server[s].rate.margin]
  /\ UNCHANGED <<time, stored, server, write, committed, changed>>

(* It reads the settings and asks the provider.                              *)
QuoteFetch(q, s) ==
  /\ quote[q].at = "idle" /\ server[s].at = "up"
  /\ server[s].rate.until <= time
  /\ quote' = [quote EXCEPT ![q].at = "fetch", ![q].on = s, ![q].since = time,
                 ![q].read = [k \in Keys |-> Setting(s, k)]]
  /\ UNCHANGED <<time, stored, server, write, committed, changed>>

UntilLate(q) == time + Keep   \* mutant

(* The cached rate expires a TTL after the question, not after the answer.    *)
Until(q) == quote[q].since + Keep

(* The provider answers, or fails and the fallback is taken; the rate is kept *)
(* in either case, over what a later question may have kept meanwhile.       *)
QuoteAnswer(q) ==
  LET s == quote[q].on  margin == quote[q].read["margin"] IN
  /\ quote[q].at = "fetch"
  /\ \E rate \in Live \union {quote[q].read["fallback"]} :
       server' = [server EXCEPT ![s].rate =
                    [value |-> rate * margin, margin |-> margin, until |-> Until(q)]]
  /\ quote' = [quote EXCEPT ![q].at = "done", ![q].told = time, ![q].margin = margin]
  /\ UNCHANGED <<time, stored, write, committed, changed>>

(* No question waits longer than the provider's timeout.                     *)
Pass ==
  /\ time < Horizon
  /\ \A q \in Quotes : quote[q].at = "fetch" => time < quote[q].since + Timeout
  /\ time' = time + 1
  /\ UNCHANGED <<stored, server, write, quote, committed, changed>>

Instance(s) == Boot(s) \/ Seed(s) \/ SeedFails(s) \/ Load(s) \/ Stop(s)
Update(w, s) == (\E entries \in Entries : SetMany(w, s, entries)) \/ (write[w].on = s /\ Publish(w))
Ask(q, s) == QuoteCached(q, s) \/ QuoteFetch(q, s) \/ (quote[q].on = s /\ QuoteAnswer(q))

RatesNext ==
  \/ \E s \in Servers : Instance(s)
  \/ \E w \in Writes, s \in Servers : Update(w, s)
  \/ \E q \in Quotes, s \in Servers : Ask(q, s)
  \/ Pass

RatesSpec == RatesInit /\ [][RatesNext]_ratesVars
-----------------------------------------------------------------------------
(* No instance serves a value that the table never held: a setMany that       *)
(* failed, or was cut off by a restart, shows nowhere.                       *)
NothingUnsaved ==
  \A s \in Servers, k \in Keys : server[s].copy[k] \in committed[k] \union {Missing}

(* A margin takes effect within one TTL of being set in an instance's copy:    *)
(* no quote given from then on uses an older one, although a slow answer may  *)
(* put an older rate back into the cache after a newer one.                  *)
MarginTakesEffect ==
  \A q \in Quotes :
    LET s == quote[q].on IN
    (quote[q].at = "done" /\ server[s].at = "up" /\ quote[q].told >= changed[s] + Keep) =>
      quote[q].margin = Setting(s, "margin")
=============================================================================
