----------------------------- MODULE RatesProofs ----------------------------
(* Theorems about Rates for every number of instances and of requests, all     *)
(* values an administrator may enter, and every lifetime of a cached rate    *)
(* that exceeds the provider's timeout.                                     *)
EXTENDS Rates, TLAPS

(* Every value an instance serves, or is about to serve, was in the table; an  *)
(* instance that serves has a value for every setting.                      *)
TableHolds ==
  /\ NothingUnsaved
  /\ \A k \in Keys : stored[k] \in committed[k] \union {Missing}
  /\ \A w \in Writes : write[w].at = "publish" =>
       /\ server[write[w].on].at = "up"
       /\ write[w].entries \in Entries
       /\ \A k \in DOMAIN write[w].entries : write[w].entries[k] \in committed[k]

(* When an instance has loaded its copy: the table lacks nothing any more.    *)
Seeded ==
  \A s \in Servers :
    /\ server[s].at = "seed" => \A k \in Keys \ server[s].unseeded : stored[k] # Missing
    /\ server[s].at = "load" => \A k \in Keys : stored[k] # Missing
    /\ server[s].at # "up" => server[s].copy["margin"] = Missing
    /\ server[s].at = "up" => server[s].copy["margin"] # Missing

Current(s) == server[s].copy["margin"]

(* A cached rate that outlives the change of the margin by more than a TTL     *)
(* was asked for after it.                                                  *)
RateFits(s) ==
  /\ changed[s] <= time
  /\ server[s].rate.until <= time + Keep
  /\ server[s].at = "up" /\ server[s].rate.until > changed[s] + Keep =>
       server[s].rate.margin = Current(s)

(* So was a question under way that began after it.                           *)
QuoteFits(q) ==
  LET s == quote[q].on IN
  /\ quote[q].at = "fetch" =>
       /\ server[s].at = "up"
       /\ quote[q].since <= time /\ time <= quote[q].since + Timeout
       /\ quote[q].since > changed[s] => quote[q].read["margin"] = Current(s)
  /\ quote[q].told <= time
  /\ quote[q].at = "done" /\ server[s].at = "up" /\ quote[q].told >= changed[s] + Keep =>
       quote[q].margin = Current(s)

RatesHold == (\A s \in Servers : RateFits(s)) /\ (\A q \in Quotes : QuoteFits(q))

RInv == RatesTypeOK /\ TableHolds /\ Seeded /\ RatesHold

(* ValuesAreSet: no value of a setting is the number that stands for none.    *)
LEMMA ValuesAreSet == Values \subseteq Nat \ {Missing} /\ Offered \subseteq Values
                      /\ \A k \in Keys : Default[k] \in Values
  BY SettingAssumption DEF Values

(* Entered: the entries of a request are offered values of some settings.     *)
LEMMA Entered ==
  ASSUME NEW entries \in Entries
  PROVE  DOMAIN entries \subseteq Keys /\ \A k \in DOMAIN entries : entries[k] \in Offered
  BY DEF Entries

(* RatesInitInv: the invariant holds of an empty table and instances down.    *)
LEMMA RatesInitInv == RatesInit => RInv
  <1> SUFFICES ASSUME RatesInit PROVE RInv
    OBVIOUS
  <1> USE RateClockAssumption DEF RatesInit
  <1>1. (CHOOSE s \in Servers : TRUE) \in Servers
    BY ServerAssumption
  <1>2. [k \in Keys |-> Missing] \in Copies
    BY DEF Copies
  <1>3. Fresh \in Server /\ Fresh.copy = [k \in Keys |-> Missing]
    BY <1>2 DEF Fresh, Server, NoRate, Missing
  <1>4. quote \in [Quotes -> Quote]
    BY <1>1, <1>2, <1>3 DEF Quote, Missing
  <1>5. write \in [Writes -> [at: {"idle", "publish", "done", "failed"}, on: Servers,
                              entries: Entries \union {<<>>}]]
    BY <1>1
  <1>6. RatesTypeOK
    BY <1>2, <1>3, <1>4, <1>5 DEF RatesTypeOK
  <1>7. TableHolds /\ Seeded
    BY <1>3 DEF TableHolds, NothingUnsaved, Seeded, Fresh, Keys
  <1>8. RatesHold
    BY <1>6 DEF RatesHold, RateFits, QuoteFits, Fresh, NoRate
  <1> QED
    BY <1>6, <1>7, <1>8 DEF RInv

(* Committed: a transaction sets its entries, keeps the others, and the table  *)
(* has held what it holds.                                                  *)
LEMMA Committed ==
  ASSUME RatesTypeOK, \A k \in Keys : stored[k] \in committed[k] \union {Missing},
         NEW entries, DOMAIN entries \subseteq Keys,
         \A k \in DOMAIN entries : entries[k] \in Values, Commit(entries)
  PROVE  /\ stored' \in Copies /\ committed' \in [Keys -> SUBSET Values]
         /\ \A k \in Keys : committed[k] \subseteq committed'[k]
         /\ \A k \in Keys : stored'[k] \in committed'[k] \union {Missing}
         /\ \A k \in Keys : stored[k] # Missing => stored'[k] # Missing
         /\ \A k \in DOMAIN entries : stored'[k] # Missing /\ entries[k] \in committed'[k]
  <1>1. stored' = [k \in Keys |-> IF k \in DOMAIN entries THEN entries[k] ELSE stored[k]]
    BY DEF Commit, Overlay
  <1>2. committed' = [k \in Keys |-> IF k \in DOMAIN entries
                                     THEN committed[k] \union {entries[k]} ELSE committed[k]]
    BY DEF Commit
  <1>3. stored \in [Keys -> Values \union {Missing}] /\ committed \in [Keys -> SUBSET Values]
    BY DEF RatesTypeOK, Copies
  <1> QED
    BY <1>1, <1>2, <1>3, ValuesAreSet DEF Copies

(* Laid: entries laid over a copy make a copy.                                *)
LEMMA Laid ==
  ASSUME NEW f \in Copies, NEW entries \in Entries
  PROVE  Overlay(entries, f) \in Copies
  <1>1. \A k \in Keys : (IF k \in DOMAIN entries THEN entries[k] ELSE f[k])
                           \in Values \union {Missing}
    BY Entered, ValuesAreSet DEF Copies
  <1> QED
    BY <1>1 DEF Overlay, Copies

(* ServerFields: an instance with a field changed to a value of its type is one. *)
LEMMA ServerFields ==
  ASSUME NEW r \in Server
  PROVE  /\ \A x \in {"down", "seed", "load", "up"} : [r EXCEPT !.at = x] \in Server
         /\ \A x \in Copies : [r EXCEPT !.copy = x] \in Server
         /\ \A x \in SUBSET Keys : [r EXCEPT !.unseeded = x] \in Server
         /\ \A x \in [value: Nat, margin: Values \union {Missing},
                      until: 0..(Horizon + Keep)] : [r EXCEPT !.rate = x] \in Server
  <1> DEFINE Rate == [value: Nat, margin: Values \union {Missing}, until: 0..(Horizon + Keep)]
             At == {"down", "seed", "load", "up"}
  <1>1. Server = [at: At, copy: Copies, unseeded: SUBSET Keys, rate: Rate]
    BY DEF Server
  <1> HIDE DEF Rate, At
  <1>2. /\ \A x \in At : [r EXCEPT !.at = x] \in Server
        /\ \A x \in Copies : [r EXCEPT !.copy = x] \in Server
        /\ \A x \in SUBSET Keys : [r EXCEPT !.unseeded = x] \in Server
        /\ \A x \in Rate : [r EXCEPT !.rate = x] \in Server
    BY <1>1
  <1> QED
    BY <1>2 DEF Rate, At

(* QuoteFields: so does a question.                                           *)
LEMMA QuoteFields ==
  ASSUME NEW r \in Quote, NEW at \in {"idle", "fetch", "done", "lost"}, NEW s \in Servers,
         NEW t \in 0..Horizon, NEW margin \in Values \union {Missing}, NEW read \in Copies
  PROVE  /\ [r EXCEPT !.at = at, !.on = s, !.told = t, !.margin = margin] \in Quote
         /\ [r EXCEPT !.at = at, !.on = s, !.since = t, !.read = read] \in Quote
         /\ [r EXCEPT !.at = at, !.told = t, !.margin = margin] \in Quote
  <1> DEFINE Times == 0..Horizon
             Margins == Values \union {Missing}
             At == {"idle", "fetch", "done", "lost"}
  <1>1. Quote = [at: At, on: Servers, read: Copies, since: Times, told: Times,
                 margin: Margins]
    BY DEF Quote
  <1>2. at \in At /\ t \in Times /\ margin \in Margins
    OBVIOUS
  <1> HIDE DEF Times, Margins, At
  <1> QED
    BY <1>1, <1>2

(* Refreshed: an instance whose copy is replaced is an instance.              *)
LEMMA Refreshed ==
  ASSUME RatesTypeOK, NEW s \in Servers, NEW state \in {"down", "seed", "load", "up"},
         NEW f \in Copies, Refresh(s, state, f)
  PROVE  server' \in [Servers -> Server] /\ changed' \in [Servers -> 0..Horizon]
  <1>1. [server[s] EXCEPT !.at = state, !.copy = f] \in Server
    <2>1. [server[s] EXCEPT !.at = state] \in Server
      BY ServerFields DEF RatesTypeOK
    <2> QED
      BY <2>1, ServerFields
  <1>2. server' = [server EXCEPT ![s] = [server[s] EXCEPT !.at = state, !.copy = f]]
    BY DEF Refresh
  <1> QED
    BY <1>1, <1>2 DEF RatesTypeOK, Refresh

(* SettingSet: what an instance takes a setting for is a value.               *)
LEMMA SettingSet ==
  ASSUME RatesTypeOK, NEW s \in Servers, NEW k \in Keys
  PROVE  Setting(s, k) \in Values
  <1>1. server[s].copy[k] \in Values \union {Missing}
    BY DEF RatesTypeOK, Server, Copies
  <1> QED
    BY <1>1, ValuesAreSet DEF Setting

(* RatesTypeStep: every step keeps the types.                                 *)
LEMMA RatesTypeStep == RInv /\ [RatesNext]_ratesVars => RatesTypeOK'
  <1> DEFINE Goal == RatesTypeOK'
  <1> SUFFICES ASSUME RInv, [RatesNext]_ratesVars PROVE Goal
    OBVIOUS
  <1> USE RateClockAssumption DEF RInv, RatesTypeOK
  <1>0. Missing \in Values \union {Missing} /\ \A k \in Keys :
           stored[k] \in committed[k] \union {Missing}
    BY DEF TableHolds
  <1>1. ASSUME NEW s \in Servers, Instance(s)
        PROVE  Goal
    <2>1. CASE Boot(s)
      <3> DEFINE lacks == {k \in Keys : stored[k] = Missing}
      <3>1. [server[s] EXCEPT !.at = "seed", !.unseeded = lacks] \in Server
        <4>1. [server[s] EXCEPT !.at = "seed"] \in Server /\ lacks \in SUBSET Keys
          BY ServerFields
        <4> HIDE DEF lacks
        <4> QED
          BY <4>1, ServerFields
      <3>2. server' = [server EXCEPT ![s] = [server[s] EXCEPT !.at = "seed",
                                                             !.unseeded = lacks]]
        BY <2>1 DEF Boot
      <3>3. server' \in [Servers -> Server]
        BY <3>1, <3>2
      <3> QED
        BY <2>1, <3>3 DEF Boot
    <2>2. CASE Seed(s)
      <3> DEFINE entries == [k \in server[s].unseeded |-> Default[k]]
      <3>1. DOMAIN entries \subseteq Keys /\ \A k \in DOMAIN entries : entries[k] \in Values
        BY ValuesAreSet DEF Server
      <3>2. Commit(entries)
        BY <2>2 DEF Seed
      <3>3. stored' \in Copies /\ committed' \in [Keys -> SUBSET Values]
        BY <1>0, <3>1, <3>2, Committed
      <3>4. [server[s] EXCEPT !.at = "load"] \in Server
        BY ServerFields
      <3>5. server' = [server EXCEPT ![s] = [server[s] EXCEPT !.at = "load"]]
        BY <2>2 DEF Seed
      <3>6. server' \in [Servers -> Server]
        BY <3>4, <3>5
      <3> QED
        BY <2>2, <3>3, <3>6 DEF Seed
    <2>3. CASE SeedFails(s)
      <3>1. [server[s] EXCEPT !.at = "down"] \in Server
        BY ServerFields
      <3>2. server' = [server EXCEPT ![s] = [server[s] EXCEPT !.at = "down"]]
        BY <2>3 DEF SeedFails
      <3>3. server' \in [Servers -> Server]
        BY <3>1, <3>2
      <3> QED
        BY <2>3, <3>3 DEF SeedFails
    <2>4. CASE Load(s)
      <3>1. server' \in [Servers -> Server] /\ changed' \in [Servers -> 0..Horizon]
        BY <2>4, Refreshed DEF Load
      <3> QED
        BY <2>4, <3>1 DEF Load
    <2>5. CASE Stop(s)
      <3>1. Fresh \in Server
        BY DEF Fresh, Server, NoRate, Missing, Copies
      <3>2. server' \in [Servers -> Server]
        BY <2>5, <3>1 DEF Stop
      <3>3. \A q \in Quotes : [quote[q] EXCEPT !.at = "lost"] \in Quote
        BY DEF Quote
      <3>4. quote' \in [Quotes -> Quote]
        BY <2>5, <3>3 DEF Stop
      <3>5. write' \in [Writes -> [at: {"idle", "publish", "done", "failed"}, on: Servers,
                                   entries: Entries \union {<<>>}]]
        BY <2>5 DEF Stop
      <3> QED
        BY <2>5, <3>2, <3>4, <3>5 DEF Stop
    <2> HIDE DEF Goal
    <2> QED
      BY <1>1, <2>1, <2>2, <2>3, <2>4, <2>5 DEF Instance
  <1>2. ASSUME NEW w \in Writes, NEW s \in Servers, NEW entries \in Entries,
               SetMany(w, s, entries)
        PROVE  Goal
    <2>1. Commit(entries) \/ UNCHANGED <<stored, committed>>
      BY <1>2 DEF SetMany
    <2>2. stored' \in Copies /\ committed' \in [Keys -> SUBSET Values]
      BY <1>0, <2>1, Entered, ValuesAreSet, Committed
    <2> DEFINE Write == [at: {"idle", "publish", "done", "failed"}, on: Servers,
                         entries: Entries \union {<<>>}]
    <2>3. write' \in [Writes -> Write]
      <3>1. \A state \in {"publish", "failed"} :
              [at |-> state, on |-> s, entries |-> entries] \in Write
        OBVIOUS
      <3>2. \E state \in {"publish", "failed"} :
              write' = [write EXCEPT ![w] = [at |-> state, on |-> s, entries |-> entries]]
        BY <1>2 DEF SetMany
      <3>3. write \in [Writes -> Write]
        OBVIOUS
      <3> HIDE DEF Write
      <3> QED
        BY <3>1, <3>2, <3>3
    <2> QED
      BY <1>2, <2>2, <2>3 DEF SetMany
  <1>3. ASSUME NEW w \in Writes, Publish(w)
        PROVE  Goal
    <2>1. write[w].entries \in Entries /\ write[w].on \in Servers
      BY <1>3 DEF Publish, TableHolds
    <2>2. server[write[w].on].copy \in Copies
      BY <2>1 DEF Server
    <2>3. Overlay(write[w].entries, server[write[w].on].copy) \in Copies
      BY <2>1, <2>2, Laid
    <2>4. server' \in [Servers -> Server] /\ changed' \in [Servers -> 0..Horizon]
      BY <1>3, <2>1, <2>3, Refreshed DEF Publish
    <2> QED
      BY <1>3, <2>4 DEF Publish
  <1>4. ASSUME NEW q \in Quotes, NEW s \in Servers, QuoteCached(q, s)
        PROVE  Goal
    <2> DEFINE margin == server[s].rate.margin
    <2>1. margin \in Values \union {Missing}
      BY DEF Server
    <2>2. quote' = [quote EXCEPT ![q] = [quote[q] EXCEPT !.at = "done", !.on = s,
                                            !.told = time, !.margin = margin]]
      BY <1>4 DEF QuoteCached
    <2> HIDE DEF margin
    <2>3. [quote[q] EXCEPT !.at = "done", !.on = s, !.told = time, !.margin = margin]
            \in Quote
      BY <2>1, QuoteFields
    <2>4. quote' \in [Quotes -> Quote]
      BY <2>2, <2>3
    <2> QED
      BY <1>4, <2>4 DEF QuoteCached
  <1>5. ASSUME NEW q \in Quotes, NEW s \in Servers, QuoteFetch(q, s)
        PROVE  Goal
    <2> DEFINE read == [k \in Keys |-> Setting(s, k)]
    <2>1. read \in Copies
      BY SettingSet DEF Copies
    <2>2. quote' = [quote EXCEPT ![q] = [quote[q] EXCEPT !.at = "fetch", !.on = s,
                                            !.since = time, !.read = read]]
      BY <1>5 DEF QuoteFetch
    <2> HIDE DEF read
    <2>3. [quote[q] EXCEPT !.at = "fetch", !.on = s, !.since = time, !.read = read] \in Quote
      BY <2>1, QuoteFields
    <2>4. quote' \in [Quotes -> Quote]
      BY <2>2, <2>3
    <2> QED
      BY <1>5, <2>4 DEF QuoteFetch
  <1>6. ASSUME NEW q \in Quotes, QuoteAnswer(q)
        PROVE  Goal
    <2> DEFINE s == quote[q].on
               margin == quote[q].read["margin"]
    <2>1. PICK rate \in Live \union {quote[q].read["fallback"]} :
            server' = [server EXCEPT ![s].rate =
                         [value |-> rate * margin, margin |-> margin, until |-> Until(q)]]
      BY <1>6 DEF QuoteAnswer
    <2>2. /\ margin \in Values \union {Missing} /\ s \in Servers
          /\ quote[q].read["fallback"] \in Values \union {Missing}
      BY DEF Quote, Copies, Keys
    <2>3. rate \in Nat /\ margin \in Nat
      <3>1. Values \union {Missing} \subseteq Nat /\ Live \subseteq Nat
        BY ValuesAreSet, SettingAssumption DEF Missing
      <3> HIDE DEF margin
      <3> QED
        BY <2>2, <3>1
    <2>4. rate * margin \in Nat
      BY <2>3
    <2>5. Until(q) \in 0..(Horizon + Keep)
      BY DEF Until, Quote
    <2>6. quote' = [quote EXCEPT ![q] = [quote[q] EXCEPT !.at = "done", !.told = time,
                                                       !.margin = margin]]
      BY <1>6 DEF QuoteAnswer
    <2> HIDE DEF s, margin
    <2>7. [quote[q] EXCEPT !.at = "done", !.told = time, !.margin = margin] \in Quote
      BY <2>2, QuoteFields
    <2>8. [server[s] EXCEPT !.rate = [value |-> rate * margin, margin |-> margin,
                                      until |-> Until(q)]] \in Server
      <3>1. [value |-> rate * margin, margin |-> margin, until |-> Until(q)] \in
              [value: Nat, margin: Values \union {Missing}, until: 0..(Horizon + Keep)]
        BY <2>2, <2>4, <2>5
      <3> QED
        BY <2>2, <3>1, ServerFields
    <2>9. server' \in [Servers -> Server] /\ quote' \in [Quotes -> Quote]
      BY <2>1, <2>6, <2>7, <2>8
    <2> QED
      BY <1>6, <2>9 DEF QuoteAnswer
  <1>7. CASE Pass
    BY <1>7 DEF Pass
  <1>8. CASE UNCHANGED ratesVars
    BY <1>8 DEF ratesVars
  <1> HIDE DEF Goal
  <1> QED
    BY <1>1, <1>2, <1>3, <1>4, <1>5, <1>6, <1>7, <1>8 DEF RatesNext, Update, Ask

(* QuoteAsked: a question leaves every instance as it is, except for its rate.      *)
LEMMA QuoteAsked ==
  ASSUME RatesTypeOK, NEW q \in Quotes, NEW t \in Servers,
         QuoteCached(q, t) \/ QuoteFetch(q, t) \/ QuoteAnswer(q)
  PROVE  \A r \in Servers : /\ server'[r].copy = server[r].copy
                            /\ server'[r].at = server[r].at
                            /\ server'[r].unseeded = server[r].unseeded
  <1> SUFFICES ASSUME NEW r \in Servers
               PROVE  /\ server'[r].copy = server[r].copy
                      /\ server'[r].at = server[r].at
                      /\ server'[r].unseeded = server[r].unseeded
    OBVIOUS
  <1>1. CASE QuoteCached(q, t) \/ QuoteFetch(q, t)
    BY <1>1 DEF QuoteCached, QuoteFetch
  <1>2. CASE QuoteAnswer(q)
    <2>1. PICK kept : server' = [server EXCEPT ![quote[q].on].rate = kept]
      BY <1>2 DEF QuoteAnswer
    <2>2. server[r] \in Server /\ server \in [Servers -> Server]
      BY DEF RatesTypeOK
    <2>3. server'[r] = server[r] \/ server'[r] = [server[r] EXCEPT !.rate = kept]
      BY <2>1, <2>2
    <2> QED
      BY <2>2, <2>3 DEF Server
  <1> QED
    BY <1>1, <1>2

(* TableStep: a value reaches an instance's copy from the table, or from the   *)
(* entries of a request that were committed to it before.                   *)
LEMMA TableStep == RInv /\ [RatesNext]_ratesVars => TableHolds'
  <1> DEFINE Goal == TableHolds'
  <1> SUFFICES ASSUME RInv, [RatesNext]_ratesVars PROVE Goal
    OBVIOUS
  <1> USE DEF RInv, RatesTypeOK, TableHolds, NothingUnsaved
  <1>1. ASSUME NEW s \in Servers, Instance(s)
        PROVE  Goal
    <2>1. CASE Boot(s) \/ SeedFails(s)
      <3>1. /\ stored' = stored /\ committed' = committed /\ write' = write
            /\ \A r \in Servers : server'[r].copy = server[r].copy
            /\ \A r \in Servers : server[r].at = "up" => server'[r].at = "up"
        <4>1. CASE Boot(s)
          BY <4>1 DEF Boot, Server
        <4>2. CASE SeedFails(s)
          BY <4>2 DEF SeedFails, Server
        <4> QED
          BY <2>1, <4>1, <4>2
      <3> QED
        BY <3>1
    <2>2. CASE Seed(s)
      <3> DEFINE entries == [k \in server[s].unseeded |-> Default[k]]
      <3>1. DOMAIN entries \subseteq Keys /\ \A k \in DOMAIN entries : entries[k] \in Values
        BY ValuesAreSet DEF Server
      <3>2. Commit(entries)
        BY <2>2 DEF Seed
      <3>3. /\ \A k \in Keys : committed[k] \subseteq committed'[k]
            /\ \A k \in Keys : stored'[k] \in committed'[k] \union {Missing}
        BY <3>1, <3>2, Committed
      <3>4. /\ write' = write
            /\ \A r \in Servers : server'[r].copy = server[r].copy
            /\ \A r \in Servers : server[r].at = "up" => server'[r].at = "up"
        BY <2>2 DEF Seed, Server
      <3>5. \A w \in Writes : write[w].at = "publish" => DOMAIN write[w].entries \subseteq Keys
        BY Entered
      <3> QED
        BY <3>3, <3>4, <3>5
    <2>3. CASE Load(s)
      <3>1. /\ stored' = stored /\ committed' = committed /\ write' = write
            /\ server'[s].copy = stored /\ server'[s].at = "up"
            /\ \A r \in Servers : r # s => server'[r] = server[r]
        BY <2>3 DEF Load, Refresh, Server
      <3> QED
        BY <3>1
    <2>4. CASE Stop(s)
      <3>1. /\ stored' = stored /\ committed' = committed
            /\ server'[s] = Fresh /\ \A r \in Servers : r # s => server'[r] = server[r]
        BY <2>4 DEF Stop
      <3>2. \A k \in Keys : Fresh.copy[k] = Missing
        BY DEF Fresh
      <3>3. \A w \in Writes : write'[w].at = "publish" => write'[w] = write[w] /\ write[w].on # s
        BY <2>4 DEF Stop
      <3>4. \A r \in Servers, k \in Keys : server'[r].copy[k] \in committed[k] \union {Missing}
        <4>1. \A k \in Keys : server'[s].copy[k] = Missing
          BY <3>1, <3>2
        <4> QED
          BY <3>1, <4>1
      <3>5. \A w \in Writes : write[w].at = "publish" => write[w].on \in Servers
        OBVIOUS
      <3> QED
        BY <3>1, <3>3, <3>4, <3>5
    <2> HIDE DEF Goal
    <2> QED
      BY <1>1, <2>1, <2>2, <2>3, <2>4 DEF Instance
  <1>2. ASSUME NEW w \in Writes, NEW s \in Servers, NEW entries \in Entries,
               SetMany(w, s, entries)
        PROVE  Goal
    <2>1. server' = server /\ server[s].at = "up"
      BY <1>2 DEF SetMany
    <2>2. \A v \in Writes : v # w => write'[v] = write[v]
      BY <1>2 DEF SetMany
    <2>3. DOMAIN entries \subseteq Keys /\ \A k \in DOMAIN entries : entries[k] \in Values
      BY Entered, ValuesAreSet
    <2>4. \A v \in Writes : write[v].at = "publish" => DOMAIN write[v].entries \subseteq Keys
      BY Entered
    <2>5. CASE /\ Commit(entries)
               /\ write' = [write EXCEPT ![w] = [at |-> "publish", on |-> s, entries |-> entries]]
      <3>1. /\ \A k \in Keys : committed[k] \subseteq committed'[k]
            /\ \A k \in Keys : stored'[k] \in committed'[k] \union {Missing}
            /\ \A k \in DOMAIN entries : entries[k] \in committed'[k]
        BY <2>3, <2>5, Committed
      <3>2. write'[w] = [at |-> "publish", on |-> s, entries |-> entries]
        BY <2>5
      <3>3. NothingUnsaved'
        BY <2>1, <3>1
      <3>4. ASSUME NEW v \in Writes, write'[v].at = "publish"
            PROVE  /\ server'[write'[v].on].at = "up"
                   /\ write'[v].entries \in Entries
                   /\ \A k \in DOMAIN write'[v].entries :
                        write'[v].entries[k] \in committed'[k]
        <4>1. CASE v = w
          BY <2>1, <3>1, <3>2, <4>1
        <4>2. CASE v # w
          BY <2>1, <2>2, <2>4, <3>1, <3>4, <4>2
        <4> QED
          BY <4>1, <4>2
      <3> QED
        BY <3>1, <3>3, <3>4
    <2>6. CASE /\ write' = [write EXCEPT ![w] = [at |-> "failed", on |-> s, entries |-> entries]]
               /\ UNCHANGED <<stored, committed>>
      <3>1. write'[w].at = "failed"
        BY <2>6
      <3> QED
        BY <2>1, <2>2, <2>6, <3>1
    <2> QED
      BY <1>2, <2>5, <2>6 DEF SetMany
  <1>3. ASSUME NEW w \in Writes, Publish(w)
        PROVE  Goal
    <2> DEFINE s == write[w].on
               copy == Overlay(write[w].entries, server[s].copy)
    <2>1. /\ write[w].at = "publish" /\ stored' = stored /\ committed' = committed
          /\ s \in Servers /\ Refresh(s, "up", copy) /\ write' = [write EXCEPT ![w].at = "done"]
      BY <1>3 DEF Publish
    <2>2. \A k \in Keys : copy[k] \in committed[k] \union {Missing}
      <3>1. \A k \in Keys : copy[k] = IF k \in DOMAIN write[w].entries
                                      THEN write[w].entries[k] ELSE server[s].copy[k]
        BY DEF Overlay
      <3> QED
        BY <2>1, <3>1
    <2> HIDE DEF copy, s
    <2>3. /\ server'[s].copy = copy /\ server'[s].at = "up"
          /\ \A r \in Servers : r # s => server'[r] = server[r]
      BY <2>1 DEF Refresh, Server
    <2>4. write'[w].at = "done" /\ \A v \in Writes : v # w => write'[v] = write[v]
      BY <2>1
    <2> QED
      BY <2>1, <2>2, <2>3, <2>4
  <1>4. ASSUME NEW q \in Quotes, NEW s \in Servers,
               QuoteCached(q, s) \/ QuoteFetch(q, s) \/ QuoteAnswer(q)
        PROVE  Goal
    <2>1. /\ stored' = stored /\ committed' = committed /\ write' = write
          /\ \A r \in Servers : server'[r].copy = server[r].copy /\ server'[r].at = server[r].at
      BY <1>4, QuoteAsked DEF QuoteCached, QuoteFetch, QuoteAnswer
    <2> QED
      BY <2>1
  <1>5. CASE Pass
    BY <1>5 DEF Pass
  <1>6. CASE UNCHANGED ratesVars
    BY <1>6 DEF ratesVars
  <1> HIDE DEF Goal
  <1> QED
    BY <1>1, <1>2, <1>3, <1>4, <1>5, <1>6 DEF RatesNext, Update, Ask

(* SeededStep: defaults are seeded before an instance loads its copy, and a    *)
(* setting once in the table, or in a copy that serves, stays there.        *)
LEMMA SeededStep == RInv /\ [RatesNext]_ratesVars => Seeded'
  <1> DEFINE Goal == Seeded'
  <1> SUFFICES ASSUME RInv, [RatesNext]_ratesVars PROVE Goal
    OBVIOUS
  <1> USE DEF RInv, RatesTypeOK, Seeded
  <1>0. \A k \in Keys : stored[k] \in committed[k] \union {Missing}
    BY DEF TableHolds
  <1>1. ASSUME NEW s \in Servers, Instance(s)
        PROVE  Goal
    <2>1. CASE Boot(s)
      <3>1. /\ server'[s].at = "seed" /\ server'[s].copy = server[s].copy
            /\ server'[s].unseeded = {k \in Keys : stored[k] = Missing}
            /\ \A r \in Servers : r # s => server'[r] = server[r]
            /\ stored' = stored /\ server[s].at = "down"
        BY <2>1 DEF Boot, Server
      <3> QED
        BY <3>1
    <2>2. CASE Seed(s)
      <3> DEFINE entries == [k \in server[s].unseeded |-> Default[k]]
      <3>1. DOMAIN entries \subseteq Keys /\ \A k \in DOMAIN entries : entries[k] \in Values
        BY ValuesAreSet DEF Server
      <3>2. Commit(entries)
        BY <2>2 DEF Seed
      <3>3. /\ \A k \in Keys : stored[k] # Missing => stored'[k] # Missing
            /\ \A k \in server[s].unseeded : stored'[k] # Missing
        <4>1. DOMAIN entries = server[s].unseeded
          OBVIOUS
        <4> HIDE DEF entries
        <4> QED
          BY <1>0, <3>1, <3>2, <4>1, Committed
      <3>4. /\ server'[s].at = "load" /\ server[s].at = "seed"
            /\ server'[s].copy = server[s].copy
            /\ \A r \in Servers : r # s => server'[r] = server[r]
        BY <2>2 DEF Seed, Server
      <3> QED
        BY <3>3, <3>4
    <2>3. CASE SeedFails(s)
      <3>1. /\ server'[s].at = "down" /\ server[s].at = "seed"
            /\ server'[s].copy = server[s].copy /\ stored' = stored
            /\ \A r \in Servers : r # s => server'[r] = server[r]
        BY <2>3 DEF SeedFails, Server
      <3> QED
        BY <3>1
    <2>4. CASE Load(s)
      <3>1. /\ stored' = stored /\ server[s].at = "load"
            /\ server'[s].copy = stored /\ server'[s].at = "up"
            /\ \A r \in Servers : r # s => server'[r] = server[r]
        BY <2>4 DEF Load, Refresh, Server
      <3>2. stored["margin"] # Missing
        BY <3>1 DEF Keys
      <3> QED
        BY <3>1, <3>2
    <2>5. CASE Stop(s)
      <3>1. /\ stored' = stored /\ server'[s] = Fresh
            /\ \A r \in Servers : r # s => server'[r] = server[r]
        BY <2>5 DEF Stop
      <3>2. Fresh.at = "down" /\ Fresh.copy["margin"] = Missing
        BY DEF Fresh, Keys
      <3> QED
        BY <3>1, <3>2
    <2> HIDE DEF Goal
    <2> QED
      BY <1>1, <2>1, <2>2, <2>3, <2>4, <2>5 DEF Instance
  <1>2. ASSUME NEW w \in Writes, NEW s \in Servers, NEW entries \in Entries,
               SetMany(w, s, entries)
        PROVE  Goal
    <2>1. DOMAIN entries \subseteq Keys /\ \A k \in DOMAIN entries : entries[k] \in Values
      BY Entered, ValuesAreSet
    <2>2. server' = server /\ (Commit(entries) \/ stored' = stored)
      BY <1>2 DEF SetMany
    <2>3. \A k \in Keys : stored[k] # Missing => stored'[k] # Missing
      BY <1>0, <2>1, <2>2, Committed
    <2> QED
      BY <2>2, <2>3 DEF Server
  <1>3. ASSUME NEW w \in Writes, Publish(w)
        PROVE  Goal
    <2> DEFINE s == write[w].on
               copy == Overlay(write[w].entries, server[s].copy)
    <2>1. /\ write[w].at = "publish" /\ stored' = stored
          /\ s \in Servers /\ Refresh(s, "up", copy)
      BY <1>3 DEF Publish
    <2>2. server[s].at = "up" /\ write[w].entries \in Entries
      BY <2>1 DEF TableHolds
    <2>3. copy["margin"] # Missing
      <3>1. copy["margin"] = IF "margin" \in DOMAIN write[w].entries
                             THEN write[w].entries["margin"] ELSE server[s].copy["margin"]
        BY DEF Overlay, Keys
      <3>2. "margin" \in DOMAIN write[w].entries => write[w].entries["margin"] # Missing
        BY <2>2, Entered, ValuesAreSet
      <3> QED
        BY <2>1, <2>2, <3>1, <3>2
    <2> HIDE DEF copy, s
    <2>4. /\ server'[s].copy = copy /\ server'[s].at = "up"
          /\ \A r \in Servers : r # s => server'[r] = server[r]
      BY <2>1 DEF Refresh, Server
    <2> QED
      BY <2>1, <2>3, <2>4
  <1>4. ASSUME NEW q \in Quotes, NEW s \in Servers,
               QuoteCached(q, s) \/ QuoteFetch(q, s) \/ QuoteAnswer(q)
        PROVE  Goal
    <2>1. /\ stored' = stored
          /\ \A r \in Servers : /\ server'[r].copy = server[r].copy
                                /\ server'[r].at = server[r].at
                                /\ server'[r].unseeded = server[r].unseeded
      BY <1>4, QuoteAsked DEF QuoteCached, QuoteFetch, QuoteAnswer
    <2> QED
      BY <2>1
  <1>5. CASE Pass
    BY <1>5 DEF Pass
  <1>6. CASE UNCHANGED ratesVars
    BY <1>6 DEF ratesVars
  <1> HIDE DEF Goal
  <1> QED
    BY <1>1, <1>2, <1>3, <1>4, <1>5, <1>6 DEF RatesNext, Update, Ask

(* Numbered: the times that the invariant compares are numbers.               *)
LEMMA Numbered ==
  ASSUME RatesTypeOK
  PROVE  /\ time \in Nat /\ Keep \in Nat /\ Timeout \in Nat /\ Timeout < Keep
         /\ \A s \in Servers : changed[s] \in Nat /\ server[s].rate.until \in Nat
         /\ \A q \in Quotes : /\ quote[q].since \in Nat /\ quote[q].told \in Nat
                              /\ quote[q].on \in Servers
  BY RateClockAssumption DEF RatesTypeOK, Server, Quote

(* Framed: questions and instances that a step leaves alone keep fitting.      *)
LEMMA Framed ==
  ASSUME RatesTypeOK, RatesHold, NEW s \in Servers,
         UNCHANGED <<time, quote, changed>>,
         server'[s].copy = server[s].copy, server'[s].rate = server[s].rate,
         server[s].at # "up", server'[s].at # "up",
         \A r \in Servers : r # s => server'[r] = server[r]
  PROVE  RatesHold'
  <1>1. ASSUME NEW r \in Servers
        PROVE  RateFits(r)'
    <2>1. RateFits(r)
      BY DEF RatesHold
    <2>2. CASE r = s
      BY <2>1, <2>2 DEF RateFits, Current
    <2>3. CASE r # s
      BY <2>1, <2>3 DEF RateFits, Current
    <2> QED
      BY <2>2, <2>3
  <1>2. ASSUME NEW q \in Quotes
        PROVE  QuoteFits(q)'
    <2>1. QuoteFits(q) /\ quote[q].on \in Servers
      BY Numbered DEF RatesHold
    <2>2. CASE quote[q].on = s
      BY <2>1, <2>2 DEF QuoteFits, Current
    <2>3. CASE quote[q].on # s
      BY <2>1, <2>3 DEF QuoteFits, Current
    <2> QED
      BY <2>2, <2>3
  <1> QED
    BY <1>1, <1>2 DEF RatesHold

(* Recopied: a copy that changes its margin starts the TTL anew.              *)
LEMMA Recopied ==
  ASSUME RatesTypeOK, RatesHold, NEW s \in Servers, NEW f \in Copies,
         Refresh(s, "up", f), UNCHANGED <<time, quote>>,
         server[s].at = "up" \/ f["margin"] # Current(s)
  PROVE  RatesHold'
  <1>1. /\ server'[s].copy = f /\ server'[s].at = "up" /\ server'[s].rate = server[s].rate
        /\ \A r \in Servers : r # s => server'[r] = server[r] /\ changed'[r] = changed[r]
        /\ \/ f["margin"] = Current(s) /\ changed'[s] = changed[s]
           \/ f["margin"] # Current(s) /\ changed'[s] = time
    <2>1. server[s] \in Server /\ server \in [Servers -> Server] /\ changed \in [Servers -> 0..Horizon]
      BY DEF RatesTypeOK
    <2> QED
      BY <2>1 DEF Refresh, Server, Current
  <1>2. ASSUME NEW r \in Servers
        PROVE  RateFits(r)'
    <2>1. RateFits(r) /\ RateFits(s)
      BY DEF RatesHold
    <2>2. CASE r = s
      BY <1>1, <2>1, <2>2, Numbered DEF RateFits, Current
    <2>3. CASE r # s
      BY <1>1, <2>1, <2>3 DEF RateFits, Current
    <2> QED
      BY <2>2, <2>3
  <1>3. ASSUME NEW q \in Quotes
        PROVE  QuoteFits(q)'
    <2>1. QuoteFits(q) /\ quote[q].on \in Servers
      BY Numbered DEF RatesHold
    <2>2. CASE quote[q].on = s
      BY <1>1, <2>1, <2>2, Numbered DEF QuoteFits, Current
    <2>3. CASE quote[q].on # s
      BY <1>1, <2>1, <2>3 DEF QuoteFits, Current
    <2> QED
      BY <2>2, <2>3
  <1> QED
    BY <1>2, <1>3 DEF RatesHold

(* RatesStep: an answer kept or given late enough was asked for late enough.   *)
LEMMA RatesStep == RInv /\ [RatesNext]_ratesVars => RatesHold'
  <1> DEFINE Goal == RatesHold'
  <1> SUFFICES ASSUME RInv, [RatesNext]_ratesVars PROVE Goal
    OBVIOUS
  <1> USE DEF RInv
  <1>1. ASSUME NEW s \in Servers, Instance(s)
        PROVE  Goal
    <2>0. server[s] \in Server /\ server \in [Servers -> Server]
      BY DEF RatesTypeOK
    <2>1. CASE Boot(s)
      <3>1. /\ UNCHANGED <<time, quote, changed>>
            /\ server'[s].copy = server[s].copy /\ server'[s].rate = server[s].rate
            /\ server[s].at = "down" /\ server'[s].at = "seed"
            /\ \A r \in Servers : r # s => server'[r] = server[r]
        BY <2>0, <2>1 DEF Boot, Server
      <3> QED
        BY <3>1, Framed
    <2>2. CASE Seed(s)
      <3>1. /\ UNCHANGED <<time, quote, changed>>
            /\ server'[s].copy = server[s].copy /\ server'[s].rate = server[s].rate
            /\ server[s].at = "seed" /\ server'[s].at = "load"
            /\ \A r \in Servers : r # s => server'[r] = server[r]
        BY <2>0, <2>2 DEF Seed, Server
      <3> QED
        BY <3>1, Framed
    <2>3. CASE SeedFails(s)
      <3>1. /\ UNCHANGED <<time, quote, changed>>
            /\ server'[s].copy = server[s].copy /\ server'[s].rate = server[s].rate
            /\ server[s].at = "seed" /\ server'[s].at = "down"
            /\ \A r \in Servers : r # s => server'[r] = server[r]
        BY <2>0, <2>3 DEF SeedFails, Server
      <3> QED
        BY <3>1, Framed
    <2>4. CASE Load(s)
      <3>1. stored \in Copies /\ Refresh(s, "up", stored) /\ UNCHANGED <<time, quote>>
        BY <2>4 DEF Load, RatesTypeOK
      <3>2. stored["margin"] # Current(s)
        BY <2>4 DEF Load, Seeded, Current, Keys
      <3> QED
        BY <3>1, <3>2, Recopied
    <2>5. CASE Stop(s)
      <3>1. /\ server'[s] = Fresh /\ \A r \in Servers : r # s => server'[r] = server[r]
            /\ UNCHANGED <<time, changed>>
        BY <2>0, <2>5 DEF Stop
      <3>2. Fresh.at = "down" /\ Fresh.rate.until = 0
        BY DEF Fresh, NoRate
      <3>3. ASSUME NEW q \in Quotes
            PROVE  /\ quote'[q].on = quote[q].on /\ quote'[q].told = quote[q].told
                   /\ quote'[q].since = quote[q].since /\ quote'[q].read = quote[q].read
                   /\ quote'[q].margin = quote[q].margin
                   /\ \/ quote'[q].at = quote[q].at /\ (quote[q].on = s => quote[q].at # "fetch")
                      \/ quote'[q].at = "lost"
        <4>1. quote[q] \in Quote
          BY DEF RatesTypeOK
        <4> QED
          BY <2>5, <4>1 DEF Stop, Quote
      <3>4. ASSUME NEW r \in Servers
            PROVE  RateFits(r)'
        <4>1. RateFits(r)
          BY DEF RatesHold
        <4>2. CASE r = s
          BY <3>1, <3>2, <4>1, <4>2, Numbered DEF RateFits
        <4>3. CASE r # s
          BY <3>1, <4>1, <4>3 DEF RateFits, Current
        <4> QED
          BY <4>2, <4>3
      <3>5. ASSUME NEW q \in Quotes
            PROVE  QuoteFits(q)'
        <4>1. QuoteFits(q) /\ quote[q].on \in Servers
          BY Numbered DEF RatesHold
        <4>2. CASE quote[q].on = s
          BY <3>1, <3>2, <3>3, <4>1, <4>2 DEF QuoteFits
        <4>3. CASE quote[q].on # s
          BY <3>1, <3>3, <4>1, <4>3 DEF QuoteFits, Current
        <4> QED
          BY <4>2, <4>3
      <3> QED
        BY <3>4, <3>5 DEF RatesHold
    <2> HIDE DEF Goal
    <2> QED
      BY <1>1, <2>1, <2>2, <2>3, <2>4, <2>5 DEF Instance
  <1>2. ASSUME NEW w \in Writes, NEW s \in Servers, NEW entries \in Entries,
               SetMany(w, s, entries)
        PROVE  Goal
    BY <1>2 DEF SetMany, RatesHold, RateFits, QuoteFits, Current
  <1>3. ASSUME NEW w \in Writes, Publish(w)
        PROVE  Goal
    <2> DEFINE s == write[w].on
               copy == Overlay(write[w].entries, server[s].copy)
    <2>1. /\ s \in Servers /\ server[s].at = "up" /\ write[w].entries \in Entries
          /\ server[s].copy \in Copies
      BY <1>3 DEF Publish, TableHolds, RatesTypeOK, Server
    <2>2. copy \in Copies
      BY <2>1, Laid
    <2>3. Refresh(s, "up", copy) /\ UNCHANGED <<time, quote>>
      BY <1>3 DEF Publish
    <2> HIDE DEF copy, s
    <2> QED
      BY <2>1, <2>2, <2>3, Recopied
  <1>4. ASSUME NEW q \in Quotes, NEW s \in Servers, QuoteCached(q, s)
        PROVE  Goal
    <2>1. /\ UNCHANGED <<time, server, changed>>
          /\ server[s].at = "up" /\ server[s].rate.until > time
          /\ quote'[q].at = "done" /\ quote'[q].on = s /\ quote'[q].told = time
          /\ quote'[q].margin = server[s].rate.margin
          /\ \A p \in Quotes : p # q => quote'[p] = quote[p]
      <3>1. quote[q] \in Quote /\ quote \in [Quotes -> Quote]
        BY DEF RatesTypeOK
      <3> QED
        BY <1>4, <3>1 DEF QuoteCached, Quote
    <2>2. QuoteFits(q)'
      BY <2>1, Numbered DEF QuoteFits, RatesHold, RateFits, Current
    <2> QED
      BY <2>1, <2>2 DEF RatesHold, RateFits, QuoteFits, Current
  <1>5. ASSUME NEW q \in Quotes, NEW s \in Servers, QuoteFetch(q, s)
        PROVE  Goal
    <2>1. /\ UNCHANGED <<time, server, changed>>
          /\ server[s].at = "up" /\ quote[q].told = quote'[q].told
          /\ quote'[q].at = "fetch" /\ quote'[q].on = s /\ quote'[q].since = time
          /\ quote'[q].read = [k \in Keys |-> Setting(s, k)]
          /\ \A p \in Quotes : p # q => quote'[p] = quote[p]
      <3>1. quote[q] \in Quote /\ quote \in [Quotes -> Quote]
        BY DEF RatesTypeOK
      <3> QED
        BY <1>5, <3>1 DEF QuoteFetch, Quote
    <2>2. quote'[q].read["margin"] = Current(s)
      BY <2>1 DEF Setting, Current, Keys, Seeded
    <2>3. QuoteFits(q)'
      BY <2>1, <2>2, Numbered DEF QuoteFits, RatesHold, Current
    <2> QED
      BY <2>1, <2>3 DEF RatesHold, RateFits, QuoteFits, Current
  <1>6. ASSUME NEW q \in Quotes, QuoteAnswer(q)
        PROVE  Goal
    <2> DEFINE s == quote[q].on
               margin == quote[q].read["margin"]
    <2>1. PICK rate \in Live \union {quote[q].read["fallback"]} :
            server' = [server EXCEPT ![s].rate =
                         [value |-> rate * margin, margin |-> margin, until |-> Until(q)]]
      BY <1>6 DEF QuoteAnswer
    <2>2. /\ UNCHANGED <<time, changed>> /\ quote[q].at = "fetch"
          /\ quote'[q].at = "done" /\ quote'[q].told = time /\ quote'[q].margin = margin
          /\ quote'[q].on = s
          /\ \A p \in Quotes : p # q => quote'[p] = quote[p]
      <3>1. quote[q] \in Quote /\ quote \in [Quotes -> Quote]
        BY DEF RatesTypeOK
      <3> QED
        BY <1>6, <3>1 DEF QuoteAnswer, Quote
    <2>3. s \in Servers
      BY Numbered
    <2>4. \A r \in Servers : /\ server'[r].copy = server[r].copy
                             /\ server'[r].at = server[r].at
      BY <1>6, <2>3, QuoteAsked
    <2>5. /\ server'[s].rate.margin = margin /\ server'[s].rate.until = Until(q)
          /\ \A r \in Servers : r # s => server'[r] = server[r]
      <3>1. server[s] \in Server /\ server \in [Servers -> Server]
        BY <2>3 DEF RatesTypeOK
      <3> HIDE DEF s, margin
      <3> QED
        BY <2>1, <2>3, <3>1 DEF Server
    <2>6. /\ quote[q].since <= time /\ time <= quote[q].since + Timeout
          /\ quote[q].since > changed[s] => margin = Current(s)
          /\ quote[q].since \in Nat /\ Until(q) = quote[q].since + Keep
      BY <2>2, Numbered DEF RatesHold, QuoteFits, Until
    <2> HIDE DEF s, margin
    <2>7. ASSUME NEW r \in Servers
          PROVE  RateFits(r)'
      <3>1. RateFits(r)
        BY DEF RatesHold
      <3>2. CASE r = s
        BY <2>2, <2>4, <2>5, <2>6, <3>1, <3>2, Numbered DEF RateFits, Current
      <3>3. CASE r # s
        BY <2>2, <2>5, <3>1, <3>3 DEF RateFits, Current
      <3> QED
        BY <3>2, <3>3
    <2>8. ASSUME NEW p \in Quotes
          PROVE  QuoteFits(p)'
      <3>1. QuoteFits(p) /\ quote[p].on \in Servers
        BY Numbered DEF RatesHold
      <3>2. CASE p = q
        BY <2>2, <2>3, <2>4, <2>6, <3>2, Numbered DEF QuoteFits, Current
      <3>3. CASE p # q
        BY <2>2, <2>4, <3>1, <3>3 DEF QuoteFits, Current
      <3> QED
        BY <3>2, <3>3
    <2> QED
      BY <2>7, <2>8 DEF RatesHold
  <1>7. CASE Pass
    <2>1. ASSUME NEW r \in Servers
          PROVE  RateFits(r)'
      BY <1>7, Numbered DEF Pass, RatesHold, RateFits, Current
    <2>2. ASSUME NEW q \in Quotes
          PROVE  QuoteFits(q)'
      BY <1>7, Numbered DEF Pass, RatesHold, QuoteFits, Current
    <2> QED
      BY <2>1, <2>2 DEF RatesHold
  <1>8. CASE UNCHANGED ratesVars
    BY <1>8 DEF ratesVars, RatesHold, RateFits, QuoteFits, Current
  <1> HIDE DEF Goal
  <1> QED
    BY <1>1, <1>2, <1>3, <1>4, <1>5, <1>6, <1>7, <1>8 DEF RatesNext, Update, Ask

LEMMA RatesInvariant == RatesSpec => []RInv
  <1>1. RInv /\ [RatesNext]_ratesVars => RInv'
    BY RatesTypeStep, TableStep, SeededStep, RatesStep DEF RInv
  <1> QED
    BY RatesInitInv, <1>1, PTL DEF RatesSpec

(* Every reachable state has the types stated in Rates.                       *)
THEOREM RatesTypes == RatesSpec => []RatesTypeOK
  <1>1. RInv => RatesTypeOK
    BY DEF RInv
  <1> QED
    BY RatesInvariant, <1>1, PTL

(* No instance ever serves a value of a setting that the table never held.     *)
THEOREM SavedOnly == RatesSpec => []NothingUnsaved
  <1>1. RInv => NothingUnsaved
    BY DEF RInv, TableHolds
  <1> QED
    BY RatesInvariant, <1>1, PTL

(* A margin set in an instance's copy is in every quote that the instance gives *)
(* a TTL later, however late the provider answered the questions before.     *)
THEOREM MarginCurrent == RatesSpec => []MarginTakesEffect
  <1>1. RInv => MarginTakesEffect
    <2> SUFFICES ASSUME RInv, NEW q \in Quotes, quote[q].at = "done",
                        server[quote[q].on].at = "up",
                        quote[q].told >= changed[quote[q].on] + Keep
                 PROVE  quote[q].margin = Setting(quote[q].on, "margin")
      BY DEF MarginTakesEffect
    <2>1. quote[q].on \in Servers
      BY Numbered DEF RInv
    <2>2. quote[q].margin = Current(quote[q].on)
      BY DEF RInv, RatesHold, QuoteFits
    <2> QED
      BY <2>1, <2>2 DEF RInv, Seeded, Setting, Current
  <1> QED
    BY RatesInvariant, <1>1, PTL
=============================================================================
