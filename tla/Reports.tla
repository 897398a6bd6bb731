------------------------------ MODULE Reports ------------------------------
(***************************************************************************)
(* The reporting kernel (packages/insights): the catalog of datasets, the  *)
(* compiler that checks a report against it, and what the query returns.   *)
(* A report is [dataset, dimensions, measures, filters, sort, limit]; sort *)
(* holds at most one [key, descending]; a filter is [field, op, values,    *)
(* list], list telling that a list of values was given.  A plan keeps the  *)
(* parts of the SQL text that decide the answer.                           *)
(***************************************************************************)
EXTENDS Integers, Sequences, FiniteSets, SequencesExt, FiniteSetsExt

CONSTANT Collation    \* the place of each column value in the order of the database

\* The order is total, and a missing value comes after all others.
ASSUME CollationAssumption ==
  /\ Collation \in [DOMAIN Collation -> Nat] /\ "none" \in DOMAIN Collation
  /\ \A v, w \in DOMAIN Collation : Collation[v] = Collation[w] => v = w
  /\ \A v \in DOMAIN Collation \ {"none"} : Collation[v] < Collation["none"]

-----------------------------------------------------------------------------
(* Catalog: the types of the dimensions and the names of the measures.     *)

Catalog ==
  [employees |->
     [dimensions |-> [department |-> "string", location |-> "string",
                      costCenter |-> "string", status |-> "enum"],
      measures |-> {"headcount", "totalCompensationMinor", "avgCompensationMinor"}],
   leave |->
     [dimensions |-> [leaveType |-> "string", status |-> "enum"],
      measures |-> {"requestCount", "totalDays"}]]

OPERATORS_BY_TYPE == [string |-> {"eq", "ne", "in", "contains"}, enum |-> {"eq", "ne", "in"}]

Report(dataset, dimensions, measures) ==
  [dataset |-> dataset, dimensions |-> dimensions, measures |-> measures,
   filters |-> <<>>, sort |-> <<>>, limit |-> 50]

\* The dashboards sort by their first measure.
PREBUILT_DASHBOARDS ==
  {[Report(d[1], <<d[2]>>, d[3]) EXCEPT !.sort = <<[key |-> d[3][1], descending |-> TRUE]>>] :
     d \in { <<"employees", "department", <<"headcount">> >>,
             <<"employees", "status", <<"headcount">> >>,
             <<"employees", "department", <<"totalCompensationMinor">> >>,
             <<"leave", "leaveType", <<"requestCount", "totalDays">> >> }}

-----------------------------------------------------------------------------
(* Compiler: the first thing wrong with a report, or "ok".                 *)

FilterError(dataset, filter) ==
  IF filter.field \notin DOMAIN dataset.dimensions THEN "UNKNOWN_FILTER_FIELD"
  ELSE IF \/ filter.op \notin OPERATORS_BY_TYPE[dataset.dimensions[filter.field]]
          \/ filter.op # "in" /\ filter.list
       THEN "INVALID_OPERATOR" ELSE "ok"

compileReport(spec) ==
  IF spec.dataset \notin DOMAIN Catalog THEN "UNKNOWN_DATASET"
  ELSE LET dataset == Catalog[spec.dataset]
           refused == {i \in DOMAIN spec.filters : FilterError(dataset, spec.filters[i]) # "ok"}
       IN IF ~(ToSet(spec.dimensions) \subseteq DOMAIN dataset.dimensions) THEN "UNKNOWN_DIMENSION"
          ELSE IF ~(ToSet(spec.measures) \subseteq dataset.measures) THEN "UNKNOWN_MEASURE"
          ELSE IF refused # {} THEN FilterError(dataset, spec.filters[Min(refused)])
          ELSE IF \E i \in DOMAIN spec.sort :
                    spec.sort[i].key \notin ToSet(spec.dimensions \o spec.measures)
          THEN "INVALID_SORT" ELSE "ok"

\* The given sort, else the first measure from its largest; then the first dimension.
compileOrderBy(spec) ==
  LET given == IF spec.sort # <<>> THEN spec.sort
               ELSE <<[key |-> spec.measures[1], descending |-> TRUE]>>
      tiebreaker == [key |-> spec.dimensions[1], descending |-> FALSE]
  IN IF spec.dimensions = <<>> \/ tiebreaker \in ToSet(given) THEN given
     ELSE Append(given, tiebreaker)

-----------------------------------------------------------------------------
(* Execution over the employees dataset, as PostgreSQL does it.  The table *)
(* has rows [id, department, status, deleted, pay], pay being the open     *)
(* compensation records; a missing value is "none".                        *)

Matching(row, filters) ==
  \A i \in DOMAIN filters :
    LET in == row[filters[i].field] \in filters[i].values
    IN row[filters[i].field] # "none" /\ IF filters[i].op = "ne" THEN ~in ELSE in

\* baseWhere and the filters, then one group per combination of values.  Without
\* dimensions there is one group, even of no rows.
GroupsOf(spec, table) ==
  LET kept == {row \in table : ~row.deleted /\ Matching(row, spec.filters)}
      Key(row) == [i \in DOMAIN spec.dimensions |-> row[spec.dimensions[i]]]
  IN IF spec.dimensions = <<>> THEN {kept}
     ELSE {{row \in kept : Key(row) = key} : key \in {Key(row) : row \in kept}}

\* Faulty variant: the rows of the join are counted.
JoinedRows(rows) ==
  MapThenSumSet(LAMBDA row : IF row.pay = {} THEN 1 ELSE Cardinality(row.pay), rows)

\* COUNT(DISTINCT e.id); the sum over the joined compensation records and their average,
\* rounded and 0 where there is none.
headcount(rows) == Cardinality({row.id : row \in rows})
PaySum(row) == FoldFunctionOnSet(+, 0, [p \in row.pay |-> p[2]], row.pay)
totalCompensationMinor(rows) == FoldFunctionOnSet(+, 0, [row \in rows |-> PaySum(row)], rows)
avgCompensationMinor(rows) ==
  LET count == FoldFunctionOnSet(+, 0, [row \in rows |-> Cardinality(row.pay)], rows)
  IN IF count = 0 THEN 0 ELSE (2 * totalCompensationMinor(rows) + count) \div (2 * count)

\* Where a group stands under one key of the order.
Place(key, rows) ==
  CASE key = "headcount" -> headcount(rows)
    [] key = "totalCompensationMinor" -> totalCompensationMinor(rows)
    [] key = "avgCompensationMinor" -> avgCompensationMinor(rows)
    [] OTHER -> Collation[(CHOOSE row \in rows : TRUE)[key]]

\* The first key of the order that tells two groups apart decides.
Before(spec, g, h) ==
  LET order == compileOrderBy(spec)
      Tie(i) == Place(order[i].key, g) = Place(order[i].key, h)
  IN \E i \in DOMAIN order :
       /\ ~Tie(i) /\ \A j \in 1..(i - 1) : Tie(j)
       /\ IF order[i].descending THEN Place(order[i].key, g) > Place(order[i].key, h)
          ELSE Place(order[i].key, g) < Place(order[i].key, h)

\* What the query may return: as many groups as the limit lets through, none of them after
\* a group that is left out.
Pages(spec, table) ==
  LET groups == GroupsOf(spec, table)
  IN {page \in SUBSET groups :
        /\ Cardinality(page) <= spec.limit
        /\ page = groups \/ Cardinality(page) = spec.limit
        /\ \A g \in page, h \in groups \ page : ~Before(spec, h, g)}

-----------------------------------------------------------------------------
(* Properties.                                                             *)

Total(page, Measure(_)) == FoldFunctionOnSet(+, 0, [g \in page |-> Measure(g)], page)

\* Reports over one table agree: a break-down never exceeds the grand total, and adds up to
\* it when it has fewer rows than its limit; the grand total counts every employee who is
\* not deleted once however many compensation records are open; a value and all others
\* ("eq", "ne") share out a column that is never empty; and with one dimension the order
\* decides which groups a limit cuts off, so that running the report again shows the same.
ReportsAgree(spec, table, page) ==
  LET Grand(filters) == CHOOSE answer \in
        Pages([spec EXCEPT !.dimensions = <<>>, !.sort = <<>>, !.filters = filters], table) : TRUE
      Share(op) ==
        Grand(<<[field |-> "status", op |-> op, values |-> {"ACTIVE"}, list |-> FALSE]>>)
      whole == Grand(spec.filters)
  IN /\ Total(page, headcount) <= Total(whole, headcount)
     /\ Total(page, totalCompensationMinor) <= Total(whole, totalCompensationMinor)
     /\ Cardinality(page) < spec.limit =>
          /\ Total(page, headcount) = Total(whole, headcount)
          /\ Total(page, totalCompensationMinor) = Total(whole, totalCompensationMinor)
     /\ Total(Grand(<<>>), headcount) = Cardinality({row.id : row \in {r \in table : ~r.deleted}})
     /\ Total(Share("eq"), headcount) + Total(Share("ne"), headcount)
          = Total(Grand(<<>>), headcount)
     /\ Len(spec.dimensions) = 1 => Pages(spec, table) = {page}
=============================================================================
