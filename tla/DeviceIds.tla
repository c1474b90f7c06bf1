----------------------------- MODULE DeviceIds -----------------------------
(***************************************************************************)
(* Which card an event belongs to (GetDeviceInfo, event_report.cpp).  With *)
(* ASCEND_RT_VISIBLE_DEVICES the runtime numbers the devices it shows from *)
(* 0; events and queries use the numbers of the cards.  The variable is    *)
(* parsed once, as the runtime does it, and a probe tells whether the      *)
(* runtime heeds it.  dcmi counts and queries the cards; where it cannot   *)
(* be set up it is given up for good.                                      *)
(***************************************************************************)
EXTENDS Integers, Sequences, FiniteSets, FiniteSetsExt

CONSTANTS
  Environments,  \* values of the variable: sequences of numbers and of Bad
  Bad,           \* a token that is no number of 32 bits
  Unset,         \* the variable is not set
  MaxCards       \* bound on the cards of the machine

IdsAssumption == Environments \subseteq Seq(Nat \cup {Bad}) /\ MaxCards \in Nat

VARIABLES
  machine,     \* the environment, the cards, what the runtime and dcmi do
  dcmi,        \* dcmi_init: "unknown", "ready" or "failed"
  dcmiMap,     \* BuildDeviceMap: "unknown", "ready" or "failed"
  env,         \* EnsureEnvParsed: parsed, the list, whether the runtime is restricted
  translated,  \* history: numbers of the runtime, what they became, and what of
  queried      \* history: cards asked for and cards that answered

vars == <<machine, dcmi, dcmiMap, env, translated, queried>>

-----------------------------------------------------------------------------
(* The list of devices *)

Valid(token, count) == token # Bad /\ (count > 0 => token <= count - 1)

\* SplitEnvTokens and the loop over the tokens: a prefix of valid ones, no more
\* than there are cards; a count of 0 is unknown.
Prefix(tokens, count) ==
  LET n == Max({i \in 0..Len(tokens) : \A j \in 1..i : Valid(tokens[j], count)})
  IN SubSeq(tokens, 1, IF count > 0 /\ n > count THEN count ELSE n)

\* One that is not ascending, or repeats a device, is refused as a whole.
Ascending(list) == \A i \in 2..Len(list) : list[i - 1] < list[i]

ParsedTo(tokens, count) == IF Ascending(Prefix(tokens, count)) THEN Prefix(tokens, count) ELSE <<>>

\* The devices the runtime shows, as it documents them.
Shown ==
  IF machine.env = Unset \/ ~machine.heeds THEN [i \in 1..machine.cards |-> i - 1]
  ELSE LET list == Prefix(machine.env, machine.cards)
       IN IF \A i, j \in 1..Len(list) : i < j => list[i] < list[j] THEN list ELSE <<>>

-----------------------------------------------------------------------------
(* dcmi *)

EnsureDcmiInit ==
  /\ dcmi = "unknown"
  /\ dcmi' = IF machine.dcmi \in {"hangs", "fails"} THEN "failed" ELSE "ready"
  /\ UNCHANGED <<machine, dcmiMap, env, translated, queried>>

\* The numbers of the cards have to be dense; the cards are listed again.
BuildDeviceMap ==
  /\ dcmi = "ready" /\ dcmiMap = "unknown"
  /\ \/ machine.dcmi # "holes" /\ dcmiMap' = "ready"
     \/ machine.dcmi \in {"holes", "countless"} /\ dcmiMap' = "failed"
  /\ UNCHANGED <<machine, dcmi, env, translated, queried>>

\* Also 0 when a symbol is missing, the cards are not listed or one of them is not
\* counted: dcmi is "countless".
GetRealDeviceCount == IF dcmi = "ready" /\ machine.dcmi # "countless" THEN machine.cards ELSE 0

\* Mutant: as many devices as cards also count as restricted.
Restricted_NotMore(list) == Len(Shown) <= GetRealDeviceCount

\* The probe: fewer devices than cards, or, without dcmi, as many as were parsed; a
\* probe that fails is taken to say that the runtime heeds the list.
Restricted(list) ==
  \/ ~machine.counts
  \/ IF GetRealDeviceCount > 0 THEN Len(Shown) < GetRealDeviceCount ELSE Len(Shown) = Len(list)

EnsureEnvParsed ==
  /\ ~env.parsed /\ (machine.env # Unset => dcmi # "unknown")
  /\ LET list == IF machine.env = Unset THEN <<>> ELSE ParsedTo(machine.env, GetRealDeviceCount)
     IN env' = [parsed |-> TRUE, list |-> list, restricted |-> list # <<>> /\ Restricted(list)]
  /\ UNCHANGED <<machine, dcmi, dcmiMap, translated, queried>>

-----------------------------------------------------------------------------
\* The card of a number of the runtime; one outside the list stays.
Translation(id) == IF env.restricted /\ id + 1 \in 1..Len(env.list) THEN env.list[id + 1] ELSE id

Give(id, card, of) ==
  /\ translated' = translated \cup {[id |-> id, card |-> card, of |-> of]}
  /\ UNCHANGED <<machine, dcmi, dcmiMap, env, queried>>

\* An event of a memory pool bears a number of the runtime.
TransDeviceId(id) == env.parsed /\ Give(id, Translation(id), "event")

\* The current device: the old interface of the runtime returns before any translation.
GetDeviceId(id) ==
  \/ machine.legacy /\ Give(id, id, "current")
  \/ ~machine.legacy /\ env.parsed /\ Give(id, Translation(id), "current")

\* GetDeviceProcMemInfo and GetDeviceHbmInfo: the driver node if it answers,
\* otherwise dcmi through the map.
Query(id) ==
  /\ \E number \in translated : number.card = id
  /\ \/ machine.devdrv
     \/ ~machine.devdrv /\ dcmi # "unknown" /\ (dcmi = "ready" => dcmiMap # "unknown")
  /\ queried' = IF machine.devdrv \/ (dcmiMap = "ready" /\ id < machine.cards)
                THEN queried \cup {<<id, id>>} ELSE queried
  /\ UNCHANGED <<machine, dcmi, dcmiMap, env, translated>>

-----------------------------------------------------------------------------
\* The runtime may heed the list, count its devices and have the present interface or
\* not, independently; dcmi may fail at each of its steps.
Init ==
  /\ machine \in [env : Environments \cup {Unset}, cards : 1..MaxCards, heeds : BOOLEAN, counts : BOOLEAN,
                  legacy : BOOLEAN, dcmi : {"works", "holes", "countless", "fails", "hangs"}, devdrv : BOOLEAN]
  /\ dcmi = "unknown" /\ dcmiMap = "unknown"
  /\ env = [parsed |-> FALSE, list |-> <<>>, restricted |-> FALSE]
  /\ translated = {} /\ queried = {}

Next ==
  \/ EnsureDcmiInit \/ BuildDeviceMap \/ EnsureEnvParsed
  \/ \E i \in 1..Len(Shown) : TransDeviceId(i - 1) \/ GetDeviceId(i - 1)
  \/ \E id \in 0..MaxCards : Query(id)

-----------------------------------------------------------------------------
(* Properties *)

\* Every token names a card, so that the count of dcmi is not needed to know
\* which devices the runtime left out.
InRange == \A i \in 1..Len(machine.env) : Valid(machine.env[i], machine.cards)

\* What the translation rests on, for a list that is set: the probe answers or the
\* runtime does heed the list, and the cards were counted or the list names cards only.
Told == (machine.counts \/ machine.heeds) /\ (GetRealDeviceCount > 0 \/ InRange)

\* What the runtime calls device i is given the number of the card it is, for every list,
\* whether or not the runtime heeds it, counted or not.  Exempt are what Told leaves out
\* (a failed probe of a runtime that does not heed the list; no count, and a list beyond
\* the cards) and the current device where only rtGetDevice tells it, which stays
\* as the runtime numbers it (EnsureEnvParsed and GetDeviceId, event_report.cpp:183, 331).
IdsArePhysical ==
  machine.env = Unset \/ Told =>
    \A number \in translated : number.of = "event" \/ ~machine.legacy => number.card = Shown[number.id + 1]
=============================================================================
