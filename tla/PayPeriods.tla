----------------------------- MODULE PayPeriods -----------------------------
(***************************************************************************)
(* Pay groups and their calendars (pay-groups.service.ts): a group is      *)
(* created with a country, a currency, a frequency and a calendar, and its *)
(* pay periods are generated in instalments, by handlers that may overlap. *)
(* The groups of a tenant do not share periods: one group is modelled, and *)
(* the others only as its code being taken.                                *)
(***************************************************************************)
EXTENDS Calendar, PayMath, FiniteSets, SequencesExt

CONSTANTS
  Anchors,      \* anchor dates a calendar may have
  PayOffsets,   \* days from the end of a period to its pay date
  Counts,       \* how many periods one request may ask for
  Clerks,       \* requests handled concurrently
  MaxPeriods    \* bound on the periods of the group

ASSUME PayPeriodsAssumption ==
  /\ Counts \subseteq Nat /\ MaxPeriods \in Nat
  /\ Anchors \subseteq Nat /\ PayOffsets \subseteq Nat

VARIABLES
  group,        \* the pay_group row with its calendar, or NoGroup
  periods,      \* its pay_period rows
  reading       \* per request: the rows it is about to insert, if any

periodVars == <<group, periods, reading>>

NoGroup == [frequency |-> "none"]
IdleClerk == {}                 \* a request asks for one period at least
Currencies == {PackCurrency(c) : c \in Countries}

PeriodsInit ==
  /\ group = NoGroup
  /\ periods = {}
  /\ reading = [c \in Clerks |-> IdleClerk]

\* A country without a rule pack and a currency that is not its pack's are refused, and
\* so is a code that is taken.
CreateGroup(country, currency, frequency, anchor, offset) ==
  /\ group = NoGroup
  /\ country \in Countries
  /\ PackCurrency(country) = currency
  /\ group' = [country |-> country, currency |-> currency, frequency |-> frequency,
               anchor |-> anchor, offset |-> offset]
  /\ UNCHANGED <<periods, reading>>

\* Faulty variant: only the requested periods are generated, from the anchor again.
RestartedPeriods(existing, count) ==
  {[p EXCEPT !.sequence = @ + existing] :
     p \in ToSet(generatePayPeriods(group.frequency, group.anchor, count, group.offset))}

\* The rows to insert: all periods from the anchor, less the first "existing" ones.
PeriodsBeyond(existing, count) ==
  LET all == generatePayPeriods(group.frequency, group.anchor, existing + count, group.offset)
  IN {p \in ToSet(all) : p.sequence > existing}

\* generatePeriods counts the rows that are there ...
CountPeriods(clerk, count) ==
  /\ reading[clerk] = IdleClerk
  /\ group # NoGroup
  /\ LET existing == Cardinality(periods)
     IN /\ existing + count <= MaxPeriods
        /\ reading' = [reading EXCEPT ![clerk] = PeriodsBeyond(existing, count)]
  /\ UNCHANGED <<group, periods>>

\* ... and inserts the next ones, unless another request has taken a sequence number:
\* the unique index then refuses the whole statement.
InsertPeriods(clerk) ==
  /\ reading[clerk] # IdleClerk
  /\ reading' = [reading EXCEPT ![clerk] = IdleClerk]
  /\ LET taken == {p.sequence : p \in periods}
     IN periods' = IF \A p \in reading[clerk] : p.sequence \notin taken
                   THEN periods \cup reading[clerk] ELSE periods
  /\ UNCHANGED group

PeriodsNext ==
  \/ \E country \in Countries \cup {"XX"}, currency \in Currencies, frequency \in Frequencies,
        anchor \in Anchors, offset \in PayOffsets :
       CreateGroup(country, currency, frequency, anchor, offset)
  \/ \E clerk \in Clerks :
       InsertPeriods(clerk) \/ \E count \in Counts : CountPeriods(clerk, count)

PeriodsSpec == PeriodsInit /\ [][PeriodsNext]_periodVars

-----------------------------------------------------------------------------
(* Properties.                                                             *)

\* The shortest and the longest period of a frequency, in days.
Lengths == [ANNUAL |-> 365..366, MONTHLY |-> 28..31, SEMI_MONTHLY |-> 13..16,
            BIWEEKLY |-> {14}, WEEKLY |-> {7}]

\* The calendar of a group has no gap and no overlap, whatever the instalments in which
\* it was generated and however they overlapped: sequence numbers run from 1, every
\* period starts the day after the one before it, month ends and leap years make none
\* of them too short or too long, and the first one begins at the anchor or, twice
\* monthly, in its month.
PeriodsTile ==
  /\ {p.sequence : p \in periods} = 1..Cardinality(periods)
  /\ \A p \in periods :
       /\ p.end - p.start + 1 \in Lengths[group.frequency]
       /\ p.sequence = 1 => p.start <= group.anchor /\ p.start > group.anchor - 31
       /\ \A q \in periods : q.sequence = p.sequence + 1 => q.start = p.end + 1
=============================================================================
