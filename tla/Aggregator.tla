----------------------------- MODULE Aggregator ------------------------------
(***************************************************************************)
(* The collector's memory and what it exposes: AddEvent, called by every   *)
(* stream's handler (collector/aggregator/aggregator.go, cost.go), and the *)
(* Prometheus scrape, which copies all states and then renders them metric *)
(* by metric while events keep coming (collector/exporter/prometheus.go).  *)
(*                                                                         *)
(* A moving average is kept in units of 1/Scale: Scale is divisible by     *)
(* 5 to the MaxEvents and by every token count, so the arithmetic is exact.*)
(* A name (workload or model) is the sequence of its parts between dashes, *)
(* which is what the key's Sprintf("%d-%s-%s") makes of it.                *)
(***************************************************************************)
EXTENDS Integers, Sequences, FiniteSets, FiniteSetsExt, SequencesExt, Functions

CONSTANTS
  Events,      \* the events agents may send
  Window,      \* WindowSeconds, the same for all agents
  Price,       \* R$ per joule, in an arbitrary unit
  Scale,       \* units of 1 in a moving average
  Grain,       \* units that rounding to a metric's decimals keeps apart
  MaxEvents,   \* bound: AddEvent calls
  MaxScrapes   \* bound: scrapes

(* The powers of 5.                                                        *)
Fives[n \in 0 .. MaxEvents] == IF n = 0 THEN 1 ELSE 5 * Fives[n - 1]

ASSUME AggregatorAssumption ==
  /\ Events \subseteq [pid : Nat, workload : Seq(STRING), model : Seq(STRING),
                       agent : STRING, gpuIndex : Int, cpu : Nat, dram : Nat,
                       gpu : Nat, tokens : Nat]
  /\ Window \in Nat /\ Price \in Nat
  /\ MaxEvents \in Nat /\ MaxScrapes \in Nat
  /\ Scale \in Nat \ {0} /\ Scale % Fives[MaxEvents] = 0
  /\ Grain \in Nat \ {0}
  /\ \A e \in Events : e.tokens = 0 \/ Scale % (Fives[MaxEvents] * e.tokens) = 0

VARIABLES
  states,      \* the map from keys to workload states
  log,         \* history: the events added, in order
  copies,      \* what GetStates returned to the running scrape
  todo,        \* keys of the states of the running scrape still to render
  rendered,    \* metrics already sent of the first of them
  page,        \* series and values sent by the running scrape
  scrapes,     \* scrapes so far
  exposed      \* the page of the latest finished scrape

scrapeVars == <<copies, todo, rendered, page, scrapes, exposed>>
vars == <<states, log, scrapeVars>>

Init ==
  /\ states = << >>
  /\ log = << >>
  /\ copies = << >>
  /\ todo = << >>
  /\ rendered = 0
  /\ page = {}
  /\ scrapes = 0
  /\ exposed = {}

------------------------------------------------------------------------------
(* AddEvent.                                                               *)

(* The key, as the parts the dashes separate.                              *)
Key(e) == <<e.pid>> \o e.workload \o e.model

Joules(e) == (e.cpu + e.dram + e.gpu) * Window

(* CalculateCost and CalculateCostPerToken of a window with tokens, scaled.*)
CostPerToken(e) == (Joules(e) * Price * Scale) \div e.tokens

(* Mutant: old and new weights swapped, the new window not included.       *)
SmoothForgets(old, new) == (4 * old) \div 5

(* The moving average with Alpha = 0.2.                                    *)
Smooth(old, new) == (4 * old + new) \div 5

(* Mutant: the average of the cost starts from its zero value.             *)
SmoothCostFromZero(old, e) ==
  IF e.tokens = 0 THEN old ELSE Smooth(old, CostPerToken(e))

(* The cost's average: a window without tokens leaves it alone, and zero   *)
(* stands for "no window with tokens yet".                                 *)
SmoothCost(old, e) ==
  CASE e.tokens = 0 -> old
    [] e.tokens > 0 /\ old = 0 -> CostPerToken(e)
    [] OTHER -> Smooth(old, CostPerToken(e))

(* A new state: its identity from the event that creates it, averages that *)
(* start at this first window.                                             *)
FirstState(e) ==
  [pid |-> e.pid, workload |-> e.workload, model |-> e.model,
   agent |-> e.agent, gpuIndex |-> e.gpuIndex,
   cpu |-> e.cpu * Scale, dram |-> e.dram * Scale, gpu |-> e.gpu * Scale,
   joules |-> Joules(e) * Scale,
   cost |-> IF e.tokens > 0 THEN CostPerToken(e) ELSE 0,
   tokens |-> e.tokens]

(* Mutant: the total of tokens is overwritten.                             *)
NextStateLastTokens(s, e) ==
  [s EXCEPT
    !.cpu = Smooth(@, e.cpu * Scale),
    !.dram = Smooth(@, e.dram * Scale),
    !.gpu = Smooth(@, e.gpu * Scale),
    !.joules = Smooth(@, Joules(e) * Scale),
    !.cost = SmoothCost(@, e),
    !.tokens = e.tokens,
    !.agent = e.agent,
    !.gpuIndex = e.gpuIndex]

(* Mutant: the total starts over when the labels change.                   *)
NextStateRelabelled(s, e) ==
  [NextStateLastTokens(s, e) EXCEPT
    !.tokens = IF s.agent = e.agent /\ s.gpuIndex = e.gpuIndex
               THEN s.tokens + e.tokens ELSE e.tokens]

(* A state after one more event; agent, host and GPU are the event's.      *)
NextState(s, e) ==
  [s EXCEPT
    !.cpu = Smooth(@, e.cpu * Scale),
    !.dram = Smooth(@, e.dram * Scale),
    !.gpu = Smooth(@, e.gpu * Scale),
    !.joules = Smooth(@, Joules(e) * Scale),
    !.cost = SmoothCost(@, e),
    !.tokens = @ + e.tokens,
    !.agent = e.agent,
    !.gpuIndex = e.gpuIndex]

(* Under the aggregator's lock from start to end.                          *)
AddEvent(e) ==
  LET k == Key(e)
      s == IF k \in DOMAIN states THEN NextState(states[k], e) ELSE FirstState(e)
  IN /\ Len(log) < MaxEvents
     /\ states' = [j \in DOMAIN states \cup {k} |-> IF j = k THEN s ELSE states[j]]
     /\ log' = Append(log, e)
     /\ UNCHANGED scrapeVars

------------------------------------------------------------------------------
(* Collect.                                                                *)

Metrics == <<"watts_cpu", "watts_dram", "watts_gpu", "tokens_total",
             "cost_per_token", "joules_per_request">>

(* Mutant: the states of all processes of a workload share their labels.   *)
SeriesOfWorkload(s) == <<s.workload, s.model, s.gpuIndex, s.agent>>

(* The label values (hostname stands and falls with the agent).            *)
Series(s) == <<s.workload, s.model, s.pid, s.gpuIndex, s.agent>>

(* round: to the nearest multiple of the metric's last decimal.            *)
Round(v) == ((v + Grain \div 2) \div Grain) * Grain

ValueOf(s, metric) ==
  CASE metric = "watts_cpu"          -> Round(s.cpu)
    [] metric = "watts_dram"         -> Round(s.dram)
    [] metric = "watts_gpu"          -> Round(s.gpu)
    [] metric = "tokens_total"       -> s.tokens
    [] metric = "cost_per_token"     -> Round(s.cost)
    [] metric = "joules_per_request" -> Round(s.joules)

(* Mutant: GetStates hands out the map's own pointers.                     *)
HeldLive(k) == states[k]

(* GetStates handed out copies.                                            *)
Held(k) == copies[k]

Idle == todo = << >>

(* GetStates, in the random order of Go's map iteration.                   *)
StartScrape ==
  /\ Idle
  /\ scrapes < MaxScrapes
  /\ DOMAIN states # {}
  /\ scrapes' = scrapes + 1
  /\ copies' = states
  /\ todo' \in SetToSeqs(DOMAIN states)
  /\ rendered' = 0
  /\ page' = {}
  /\ UNCHANGED <<states, log, exposed>>

(* One metric goes into the channel, which may block in between; the last  *)
(* one of the last state ends the scrape.                                  *)
SendMetric ==
  LET k == Head(todo)
      metric == Metrics[rendered + 1]
      sent == [series |-> Series(Held(k)), metric |-> metric,
               value |-> ValueOf(Held(k), metric)]
  IN /\ ~Idle
     /\ page' = page \cup {sent}
     /\ rendered' = (rendered + 1) % Len(Metrics)
     /\ todo' = IF rendered' = 0 THEN Tail(todo) ELSE todo
     /\ exposed' = IF todo' = << >> THEN page' ELSE exposed
     /\ UNCHANGED <<states, log, copies, scrapes>>

Next == StartScrape \/ SendMetric \/ \E e \in Events : AddEvent(e)

Spec == Init /\ [][Next]_vars

------------------------------------------------------------------------------
State ==
  [pid : Nat, workload : Seq(STRING), model : Seq(STRING), agent : STRING,
   gpuIndex : Int, cpu : Nat, dram : Nat, gpu : Nat, joules : Nat, cost : Nat,
   tokens : Nat]

TypeOK ==
  /\ \A k \in DOMAIN states : states[k] \in State
  /\ log \in Seq(Events) /\ Len(log) <= MaxEvents
  /\ \A k \in DOMAIN copies : copies[k] \in State
  /\ todo \in Seq(DOMAIN copies)
  /\ rendered \in 0 .. Len(Metrics) - 1
  /\ \A m \in page \cup exposed : m.metric \in ToSet(Metrics) /\ m.value \in Nat
  /\ scrapes \in 0 .. MaxScrapes

TokensOfLog(n) == SumFunctionOnSet([i \in DOMAIN log |-> log[i].tokens], 1 .. n)

TokensOfStates(s) == SumFunction([k \in DOMAIN s |-> s[k].tokens])

(* No token an agent reported is lost or counted twice, whichever keys the *)
(* events of different processes fall on (aggregator.go:111).              *)
TokensConserved == TokensOfStates(states) = TokensOfLog(Len(log))

(* The windows that went into the state of key k.                          *)
WindowsOf(k) == {i \in DOMAIN log : Key(log[i]) = k}

Between(v, S) == Min(S) <= v /\ v <= Max(S)

(* A moving average never leaves the range of what it averages; that of    *)
(* the cost is over the windows with tokens only, wherever idle windows    *)
(* and windows without a power reading fall, although its zero also means  *)
(* that there was none yet (aggregator.go:80-109).                         *)
AveragesBounded ==
  \A k \in DOMAIN states :
    LET s == states[k]
        busy == {i \in WindowsOf(k) : log[i].tokens > 0}
    IN /\ Between(s.cpu, {log[i].cpu * Scale : i \in WindowsOf(k)})
       /\ Between(s.dram, {log[i].dram * Scale : i \in WindowsOf(k)})
       /\ Between(s.gpu, {log[i].gpu * Scale : i \in WindowsOf(k)})
       /\ Between(s.cost, IF busy = {} THEN {0}
                          ELSE {CostPerToken(log[i]) : i \in busy})

(* Two states never have the same label values, which the Prometheus       *)
(* registry would answer by failing the whole scrape: labels that follow   *)
(* the latest event must not make two states meet (prometheus.go:91-100).  *)
SeriesDistinct ==
  \A j, k \in DOMAIN states : j # k => Series(states[j]) # Series(states[k])

(* The states are well formed and can be told apart.                       *)
StatesInv == TypeOK /\ SeriesDistinct

PageValue(series, metric) ==
  (CHOOSE m \in exposed : m.series = series /\ m.metric = metric).value

(* Twice the distance between the joules of a series and its watts over    *)
(* the window; what rounding explains is at most Grain per rounded value.  *)
TwiceGap(series) ==
  2 * (PageValue(series, "joules_per_request")
       - Window * (PageValue(series, "watts_cpu") + PageValue(series, "watts_dram")
                   + PageValue(series, "watts_gpu")))

(* A finished page shows one instant, however many events came while it    *)
(* was rendered: each series has all its metrics, its energy is its power  *)
(* over the window, and the totals add up to the tokens of a prefix of the *)
(* events.                                                                 *)
PageOfOneInstant ==
  LET totals == {m \in exposed : m.metric = "tokens_total"}
  IN /\ \A series \in {m.series : m \in exposed} :
          /\ {m.metric : m \in {n \in exposed : n.series = series}} = ToSet(Metrics)
          /\ TwiceGap(series) \in -Grain * (1 + 3 * Window) .. Grain * (1 + 3 * Window)
     /\ \E n \in 0 .. Len(log) :
          TokensOfLog(n) = SumFunction([m \in totals |-> m.value])

(* tokens_total is exposed as a counter: in two consecutive pages no       *)
(* series of it falls, whatever happened to the labels in between.         *)
CounterNeverFalls ==
  [][\A m \in exposed, n \in exposed' :
       m.series = n.series /\ m.metric = "tokens_total" /\ n.metric = m.metric
         => n.value >= m.value]_vars

==============================================================================
