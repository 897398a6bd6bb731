--------------------------- MODULE Figures_proofs ---------------------------
(***************************************************************************)
(* What the kernels guarantee for every question they can be asked: a      *)
(* report over any table of employees agrees with the others; any payslip  *)
(* of any of the three rule packs adds up, and a raise that is more than   *)
(* the rounding of its lines never costs; the chart of any organisation    *)
(* shows everybody once whose line of managers ends.                       *)
(*                                                                         *)
(* The argument for payslips goes up the calculation: quotients and their  *)
(* rounding; progressive brackets; each contribution of a pack, which      *)
(* takes at most so much of a rise and never more than there is; the lines *)
(* that calculate and runPayroll append, one after the other; the slip of  *)
(* a member; two slips that differ by a raise.  Recursive functions are    *)
(* shown to exist before their equations are used.                         *)
(***************************************************************************)
EXTENDS Figures, FiniteSums, SequenceTheorems

-----------------------------------------------------------------------------
(* Reports. *)

\* The rows a report is about, and what they are grouped by.
Kept(spec, table) == {row \in table : ~row.deleted /\ Matching(row, spec.filters)}
GroupKey(spec, row) == [i \in DOMAIN spec.dimensions |-> row[spec.dimensions[i]]]

\* The rows of a report are rows of its table.
LEMMA KeptAreRows ==
    ASSUME NEW table, EmployeeTable(table), NEW spec
    PROVE  Kept(spec, table) \subseteq table /\ IsFiniteSet(Kept(spec, table))
BY FS_Subset DEF Kept, EmployeeTable

\* Ids tell employees apart, so that counting ids counts rows.
LEMMA HeadcountCounts ==
    ASSUME NEW table, EmployeeTable(table), NEW rows \in SUBSET table
    PROVE  IsFiniteSet(rows) /\ headcount(rows) = Cardinality(rows)
<1> DEFINE ids == {row.id : row \in rows}
           f == [row \in rows |-> row.id]
<1>1. IsFiniteSet(rows)
  BY FS_Subset DEF EmployeeTable
<1>2. f \in Bijection(rows, ids)
  <2>1. \A row, other \in rows : row.id = other.id => row = other
    BY DEF EmployeeTable
  <2>2. f \in [rows -> ids] /\ \A row \in rows : f[row] = row.id
    OBVIOUS
  <2>3. \A id \in ids : \E row \in rows : f[row] = id
    OBVIOUS
  <2> HIDE DEF f, ids
  <2> QED  BY <2>1, <2>2, <2>3 DEF Bijection, Injection, Surjection, IsInjective
<1>3. ExistsBijection(rows, ids)
  BY <1>2 DEF ExistsBijection
<1> QED  BY <1>1, <1>3, FS_Bijection DEF headcount

\* What an employee is paid is a number.
LEMMA PaysAreNat ==
    ASSUME NEW table, EmployeeTable(table)
    PROVE  \A row \in table : PaySum(row) \in Nat
<1> SUFFICES ASSUME NEW row \in table PROVE PaySum(row) \in Nat
  OBVIOUS
<1> DEFINE f == [p \in row.pay |-> p[2]]
<1>1. IsFiniteSet(row.pay) /\ \A p \in row.pay : f[p] \in Nat
  BY DEF EmployeeTable
<1> HIDE DEF f
<1>2. Sum(f, row.pay) \in Nat
  BY <1>1, SumNat
<1> QED  BY <1>2 DEF Sum, PaySum, f

\* Both measures are sums over the rows.
LEMMA Measured ==
    ASSUME NEW table, EmployeeTable(table), NEW rows \in SUBSET table
    PROVE  /\ headcount(rows) = Sum([row \in table |-> 1], rows)
           /\ totalCompensationMinor(rows) = Sum([row \in table |-> PaySum(row)], rows)
<1> DEFINE ones == [row \in table |-> 1]
           pays == [row \in table |-> PaySum(row)]
           own == [row \in rows |-> PaySum(row)]
<1>1. IsFiniteSet(rows) /\ headcount(rows) = Cardinality(rows)
  BY HeadcountCounts
<1>2. (\A row \in rows : ones[row] = 1) /\ (\A row \in rows : own[row] = pays[row])
  OBVIOUS
<1>3. totalCompensationMinor(rows) = Sum(own, rows)
  BY DEF totalCompensationMinor, Sum
<1> HIDE DEF ones, pays, own
<1>4. Sum(ones, rows) = Cardinality(rows)
  BY <1>1, <1>2, SumOnes
<1>5. Sum(own, rows) = Sum(pays, rows)
  BY <1>1, <1>2, SumSame
<1> QED  BY <1>1, <1>3, <1>4, <1>5 DEF ones, pays

LEMMA MeasuresAreNat ==
    ASSUME NEW table, EmployeeTable(table), NEW rows \in SUBSET table
    PROVE  headcount(rows) \in Nat /\ totalCompensationMinor(rows) \in Nat
<1> DEFINE own == [row \in rows |-> PaySum(row)]
<1>1. IsFiniteSet(rows) /\ headcount(rows) = Cardinality(rows)
  BY HeadcountCounts
<1>2. \A row \in rows : own[row] \in Nat
  BY PaysAreNat
<1>3. totalCompensationMinor(rows) = Sum(own, rows)
  BY DEF totalCompensationMinor, Sum
<1> HIDE DEF own
<1>4. Sum(own, rows) \in Nat
  BY <1>1, <1>2, SumNat
<1> QED  BY <1>1, <1>3, <1>4, FS_CardinalityType

\* The average of as many records as there are.
LEMMA AverageIsInt ==
    ASSUME NEW table, EmployeeTable(table), NEW rows \in SUBSET table
    PROVE  avgCompensationMinor(rows) \in Int
<1> DEFINE counts == [row \in rows |-> Cardinality(row.pay)]
           total == totalCompensationMinor(rows)
<1>1. IsFiniteSet(rows) /\ total \in Nat
  BY HeadcountCounts, MeasuresAreNat
<1>2. \A row \in rows : counts[row] \in Nat
  BY FS_CardinalityType DEF EmployeeTable
<1> HIDE DEF counts, total
<1>3. Sum(counts, rows) \in Nat
  BY <1>1, <1>2, SumNat
<1>4. PICK count \in Nat : count = Sum(counts, rows)
  BY <1>3
<1>5. avgCompensationMinor(rows)
        = IF count = 0 THEN 0 ELSE (2 * total + count) \div (2 * count)
  BY <1>4 DEF avgCompensationMinor, Sum, counts, total
<1>6. count # 0 => 2 * count \in Nat \ {0} /\ 2 * total + count \in Nat
  BY <1>1
<1>7. \A n \in Nat, d \in Nat \ {0} : n \div d \in Int
  OBVIOUS
<1> QED  BY <1>5, <1>6, <1>7

\* The groups of a report are disjoint and make up the rows it keeps.
LEMMA GroupsPartition ==
    ASSUME NEW spec, NEW table, EmployeeTable(table)
    PROVE  LET groups == GroupsOf(spec, table)
           IN /\ UNION groups = Kept(spec, table)
              /\ \A g, h \in groups : g # h => g \cap h = {}
              /\ IsFiniteSet(groups)
              /\ \A g \in groups : g \in SUBSET table
<1> DEFINE kept == Kept(spec, table)
           Group(row) == {other \in kept : GroupKey(spec, other) = GroupKey(spec, row)}
           split == {Group(row) : row \in kept}
           keyed == {{row \in kept : GroupKey(spec, row) = key} :
                       key \in {GroupKey(spec, row) : row \in kept}}
<1>0. kept \subseteq table /\ IsFiniteSet(kept)
  BY KeptAreRows
<1>1. CASE spec.dimensions = <<>>
  <2>1. GroupsOf(spec, table) = {kept}
    BY <1>1 DEF GroupsOf, Kept
  <2>2. UNION {kept} = kept /\ IsFiniteSet({kept})
    BY FS_Singleton
  <2> HIDE DEF kept
  <2> QED  BY <1>0, <2>1, <2>2 DEF kept
<1>2. CASE spec.dimensions # <<>>
  <2>1. GroupsOf(spec, table) = keyed
    BY <1>2 DEF GroupsOf, Kept, GroupKey
  <2>2. keyed = split
    OBVIOUS
  <2>3. [row \in kept |-> Group(row)] \in Surjection(kept, split)
    BY DEF Surjection
  <2>4. IsFiniteSet(split)
    <3> HIDE DEF kept, split
    <3> QED  BY <1>0, <2>3, FS_Surjection
  <2>5. UNION split = kept /\ \A g, h \in split : g # h => g \cap h = {}
    OBVIOUS
  <2>6. \A g \in split : g \in SUBSET table
    BY <1>0
  <2> HIDE DEF keyed, split, kept
  <2> QED  BY <2>1, <2>2, <2>4, <2>5, <2>6 DEF kept
<1> QED  BY <1>1, <1>2

\* A break-down adds up to the measure of all the rows it keeps.
LEMMA TotalOfKept ==
    ASSUME NEW spec, NEW table, EmployeeTable(table)
    PROVE  /\ Total(GroupsOf(spec, table), headcount) = headcount(Kept(spec, table))
           /\ Total(GroupsOf(spec, table), totalCompensationMinor)
                = totalCompensationMinor(Kept(spec, table))
<1> DEFINE groups == GroupsOf(spec, table)
           ones == [row \in table |-> 1]
           pays == [row \in table |-> PaySum(row)]
           heads == [g \in groups |-> headcount(g)]
           sums == [g \in groups |-> totalCompensationMinor(g)]
<1>1. /\ UNION groups = Kept(spec, table) /\ IsFiniteSet(groups)
      /\ \A g, h \in groups : g # h => g \cap h = {}
      /\ \A g \in groups : g \in SUBSET table
  BY GroupsPartition
<1>2. Kept(spec, table) \in SUBSET table /\ IsFiniteSet(Kept(spec, table))
  BY KeptAreRows
<1>3. \A g \in groups : heads[g] = Sum(ones, g) /\ sums[g] = Sum(pays, g)
  BY <1>1, Measured
<1>4. \A row \in Kept(spec, table) : ones[row] \in Nat /\ pays[row] \in Nat
  BY <1>2, PaysAreNat
<1>5. /\ headcount(Kept(spec, table)) = Sum(ones, Kept(spec, table))
      /\ totalCompensationMinor(Kept(spec, table)) = Sum(pays, Kept(spec, table))
  BY <1>2, Measured
<1>6. /\ Total(groups, headcount) = Sum(heads, groups)
      /\ Total(groups, totalCompensationMinor) = Sum(sums, groups)
  BY DEF Total, Sum
<1> HIDE DEF groups, ones, pays, heads, sums
<1>7. Sum(heads, groups) = Sum(ones, UNION groups)
  BY <1>1, <1>2, <1>3, <1>4, SumParts
<1>8. Sum(sums, groups) = Sum(pays, UNION groups)
  BY <1>1, <1>2, <1>3, <1>4, SumParts
<1> QED  BY <1>1, <1>5, <1>6, <1>7, <1>8 DEF groups

\* A page never exceeds the rows the report keeps, and adds up to them when it is not full.
LEMMA PageTotals ==
    ASSUME NEW spec, NEW table, EmployeeTable(table), NEW page \in Pages(spec, table)
    PROVE  LET kept == Kept(spec, table)
           IN /\ Total(page, headcount) <= headcount(kept)
              /\ Total(page, totalCompensationMinor) <= totalCompensationMinor(kept)
              /\ Cardinality(page) < spec.limit =>
                   /\ Total(page, headcount) = headcount(kept)
                   /\ Total(page, totalCompensationMinor) = totalCompensationMinor(kept)
<1> DEFINE groups == GroupsOf(spec, table)
           heads == [g \in groups |-> headcount(g)]
           sums == [g \in groups |-> totalCompensationMinor(g)]
           own == [g \in page |-> headcount(g)]
           mine == [g \in page |-> totalCompensationMinor(g)]
           rest == groups \ page
<1>1. IsFiniteSet(groups) /\ \A g \in groups : g \in SUBSET table
  BY GroupsPartition
<1>2. /\ page \subseteq groups
      /\ page = groups \/ Cardinality(page) = spec.limit
  BY DEF Pages
<1>3. IsFiniteSet(page) /\ IsFiniteSet(rest)
  BY <1>1, <1>2, FS_Subset
<1>4. \A g \in groups : headcount(g) \in Nat /\ totalCompensationMinor(g) \in Nat
  BY <1>1, MeasuresAreNat
<1>5. /\ \A g \in page : own[g] = heads[g] /\ mine[g] = sums[g]
      /\ \A g \in groups : heads[g] \in Nat /\ sums[g] \in Nat
  BY <1>2, <1>4
<1>6. /\ Total(page, headcount) = Sum(own, page) /\ Total(groups, headcount) = Sum(heads, groups)
      /\ Total(page, totalCompensationMinor) = Sum(mine, page)
      /\ Total(groups, totalCompensationMinor) = Sum(sums, groups)
  BY DEF Total, Sum
<1>7. groups = page \cup rest /\ page \cap rest = {}
  BY <1>2
<1>8. /\ Total(groups, headcount) = headcount(Kept(spec, table))
      /\ Total(groups, totalCompensationMinor) = totalCompensationMinor(Kept(spec, table))
  BY TotalOfKept
<1> HIDE DEF groups, heads, sums, own, mine, rest
<1>9. Sum(own, page) = Sum(heads, page) /\ Sum(mine, page) = Sum(sums, page)
  BY <1>3, <1>5, SumSame
<1>10. /\ Sum(heads, page \cup rest) = Sum(heads, page) + Sum(heads, rest)
       /\ Sum(sums, page \cup rest) = Sum(sums, page) + Sum(sums, rest)
  BY <1>3, <1>5, <1>7, SumUnion
<1>11. /\ Sum(heads, page) \in Nat /\ Sum(heads, rest) \in Nat
       /\ Sum(sums, page) \in Nat /\ Sum(sums, rest) \in Nat
  BY <1>3, <1>5, <1>7, SumNat
<1>12. Cardinality(page) < spec.limit => page = groups
  BY <1>2, <1>3, FS_CardinalityType
<1> DEFINE shown == Total(page, headcount)
           paid == Total(page, totalCompensationMinor)
           people == headcount(Kept(spec, table))
           costs == totalCompensationMinor(Kept(spec, table))
<1>13. /\ shown = Sum(heads, page) /\ people = Sum(heads, page \cup rest)
       /\ paid = Sum(sums, page) /\ costs = Sum(sums, page \cup rest)
  BY <1>6, <1>7, <1>8, <1>9
<1>14. page = groups => shown = people /\ paid = costs
  BY <1>7, <1>13
<1> HIDE DEF shown, paid, people, costs
<1>15. shown <= people /\ paid <= costs
  BY <1>10, <1>11, <1>13
<1>16. Cardinality(page) < spec.limit => shown = people /\ paid = costs
  BY <1>12, <1>14
<1> QED  BY <1>15, <1>16 DEF shown, paid, people, costs

\* Without dimensions there is one page, of one row.
LEMMA GrandPage ==
    ASSUME NEW spec, spec.dimensions = <<>>, spec.limit \in Nat \ {0}, NEW table
    PROVE  /\ Pages(spec, table) = {GroupsOf(spec, table)}
           /\ (CHOOSE answer \in Pages(spec, table) : TRUE) = GroupsOf(spec, table)
<1> DEFINE groups == GroupsOf(spec, table)
<1>1. PICK kept : groups = {kept}
  BY DEF GroupsOf
<1> HIDE DEF groups
<1>2. Cardinality(groups) = 1 /\ Cardinality({}) = 0
  BY <1>1, FS_Singleton, FS_EmptySet
<1>3. groups \in Pages(spec, table)
  BY <1>2 DEF Pages, groups
<1>4. ASSUME NEW page \in Pages(spec, table)
      PROVE  page = groups
  <2>1. page \subseteq groups /\ (page = groups \/ Cardinality(page) = spec.limit)
    BY DEF Pages, groups
  <2> QED  BY <1>1, <1>2, <2>1
<1>5. Pages(spec, table) = {groups}
  BY <1>3, <1>4
<1> QED  BY <1>5 DEF groups

GrandTotal(spec) == [spec EXCEPT !.dimensions = <<>>, !.sort = <<>>]
ByStatus(spec, op, v) ==
  [GrandTotal(spec) EXCEPT !.filters = <<[field |-> "status", op |-> op, values |-> {v}, list |-> FALSE]>>]

\* The grand total keeps the filters; the two shares have one each.
LEMMA GrandFilters ==
    ASSUME NEW spec \in ReportSpecs, NEW op, NEW v
    PROVE  /\ GrandTotal(spec).filters = spec.filters
           /\ [GrandTotal(spec) EXCEPT !.filters = <<>>].filters = <<>>
           /\ ByStatus(spec, op, v).filters
                = <<[field |-> "status", op |-> op, values |-> {v}, list |-> FALSE]>>
BY DEF ReportSpecs, GrandTotal, ByStatus

\* "eq" and "ne" share out the rows of a table whose every row has a status.
LEMMA StatusSplits ==
    ASSUME NEW table, EmployeeTable(table), NEW spec \in ReportSpecs, NEW v
    PROVE  LET all == Kept([GrandTotal(spec) EXCEPT !.filters = <<>>], table)
               eq == Kept(ByStatus(spec, "eq", v), table)
               ne == Kept(ByStatus(spec, "ne", v), table)
           IN all = {r \in table : ~r.deleted} /\ eq \cup ne = all /\ eq \cap ne = {}
<1> DEFINE Filter(op) == <<[field |-> "status", op |-> op, values |-> {v}, list |-> FALSE]>>
<1>1. \A row : Matching(row, <<>>)
  BY DEF Matching
<1>2. ASSUME NEW row \in table, NEW op
      PROVE  Matching(row, Filter(op)) <=> IF op = "ne" THEN row.status # v ELSE row.status = v
  <2>1. /\ DOMAIN Filter(op) = {1}
        /\ Filter(op)[1].field = "status" /\ Filter(op)[1].op = op /\ Filter(op)[1].values = {v}
    OBVIOUS
  <2>2. row["status"] # "none"
    BY DEF EmployeeTable
  <2> HIDE DEF Filter
  <2>3. Matching(row, Filter(op)) <=>
          /\ row["status"] # "none"
          /\ IF op = "ne" THEN ~(row["status"] \in {v}) ELSE row["status"] \in {v}
    BY <2>1 DEF Matching
  <2> QED  BY <2>2, <2>3
<1> HIDE DEF Filter
<1>3. /\ ByStatus(spec, "eq", v).filters = Filter("eq")
      /\ ByStatus(spec, "ne", v).filters = Filter("ne")
      /\ [GrandTotal(spec) EXCEPT !.filters = <<>>].filters = <<>>
  BY GrandFilters DEF Filter
<1>4. Kept([GrandTotal(spec) EXCEPT !.filters = <<>>], table) = {r \in table : ~r.deleted}
  BY <1>1, <1>3 DEF Kept
<1>5. Kept(ByStatus(spec, "eq", v), table) = {r \in table : ~r.deleted /\ r.status = v}
  BY <1>2, <1>3 DEF Kept
<1>6. Kept(ByStatus(spec, "ne", v), table) = {r \in table : ~r.deleted /\ r.status # v}
  BY <1>2, <1>3 DEF Kept
<1> QED  BY <1>4, <1>5, <1>6

\* A value and all others share out a column that is never empty.
LEMMA SharesAddUp ==
    ASSUME NEW table, EmployeeTable(table), NEW spec \in ReportSpecs, NEW v
    PROVE  /\ Total(GroupsOf(ByStatus(spec, "eq", v), table), headcount)
                + Total(GroupsOf(ByStatus(spec, "ne", v), table), headcount)
              = Total(GroupsOf([GrandTotal(spec) EXCEPT !.filters = <<>>], table), headcount)
           /\ Total(GroupsOf([GrandTotal(spec) EXCEPT !.filters = <<>>], table), headcount)
                = Cardinality({row.id : row \in {r \in table : ~r.deleted}})
<1> DEFINE all == Kept([GrandTotal(spec) EXCEPT !.filters = <<>>], table)
           eq == Kept(ByStatus(spec, "eq", v), table)
           ne == Kept(ByStatus(spec, "ne", v), table)
<1>1. all = {r \in table : ~r.deleted} /\ eq \cup ne = all /\ eq \cap ne = {}
  BY StatusSplits
<1>2. all \in SUBSET table /\ eq \in SUBSET table /\ ne \in SUBSET table
  BY KeptAreRows
<1>3. /\ Total(GroupsOf([GrandTotal(spec) EXCEPT !.filters = <<>>], table), headcount) = headcount(all)
      /\ Total(GroupsOf(ByStatus(spec, "eq", v), table), headcount) = headcount(eq)
      /\ Total(GroupsOf(ByStatus(spec, "ne", v), table), headcount) = headcount(ne)
  BY TotalOfKept
<1> HIDE DEF all, eq, ne
<1>4. /\ IsFiniteSet(eq) /\ IsFiniteSet(ne)
      /\ headcount(all) = Cardinality(all)
      /\ headcount(eq) = Cardinality(eq) /\ headcount(ne) = Cardinality(ne)
  BY <1>2, HeadcountCounts
<1>5. Cardinality(all) = Cardinality(eq) + Cardinality(ne)
  <2>1. Cardinality(eq \cup ne) = Cardinality(eq) + Cardinality(ne) - Cardinality(eq \cap ne)
    BY <1>4, FS_Union
  <2>2. Cardinality(eq \cap ne) = 0
    BY <1>1, FS_EmptySet
  <2>3. Cardinality(eq) \in Nat /\ Cardinality(ne) \in Nat
    BY <1>4, FS_CardinalityType
  <2>4. Cardinality(all) = Cardinality(eq \cup ne)
    BY <1>1
  <2> QED  BY <2>1, <2>2, <2>3, <2>4
<1> QED  BY <1>1, <1>3, <1>4, <1>5 DEF headcount, all

\* What a report of employees with one dimension can be ordered by.
SortKeys(spec) ==
  [key : {"headcount", "totalCompensationMinor", "avgCompensationMinor", spec.dimensions[1]},
   descending : BOOLEAN]

\* A report of employees that has one dimension and passes the compiler.
OneDimension(spec, table) ==
  /\ spec \in ReportSpecs /\ compileReport(spec) = "ok"
  /\ spec.dataset = "employees" /\ spec.measures # <<>> /\ Len(spec.dimensions) = 1
  /\ EmployeeTable(table) /\ \A row \in table : row[spec.dimensions[1]] \in DOMAIN Collation

\* A report of employees that passes the compiler has dimensions and measures of the catalog.
LEMMA CompiledDimensions ==
    ASSUME NEW spec, spec.dataset = "employees", compileReport(spec) = "ok"
    PROVE  /\ ToSet(spec.dimensions) \subseteq DOMAIN Catalog["employees"].dimensions
           /\ ToSet(spec.measures) \subseteq Catalog["employees"].measures
<1> DEFINE dataset == Catalog["employees"]
           refused == {k \in DOMAIN spec.filters : FilterError(dataset, spec.filters[k]) # "ok"}
           first == FilterError(dataset, spec.filters[Min(refused)])
           sorted == \E k \in DOMAIN spec.sort :
                       spec.sort[k].key \notin ToSet(spec.dimensions \o spec.measures)
<1>1. compileReport(spec) =
        IF ~(ToSet(spec.dimensions) \subseteq DOMAIN dataset.dimensions) THEN "UNKNOWN_DIMENSION"
        ELSE IF ~(ToSet(spec.measures) \subseteq dataset.measures) THEN "UNKNOWN_MEASURE"
        ELSE IF refused # {} THEN first
        ELSE IF sorted THEN "INVALID_SORT" ELSE "ok"
  <2>1. spec.dataset = "employees" /\ "employees" \in DOMAIN Catalog
    BY DEF Catalog
  <2> QED  BY <2>1 DEF compileReport
<1> HIDE DEF dataset, refused, first, sorted
<1>2. /\ ToSet(spec.dimensions) \subseteq DOMAIN dataset.dimensions
      /\ ToSet(spec.measures) \subseteq dataset.measures
  BY <1>1
<1> QED  BY <1>2 DEF dataset

\* A dimension of the catalog has no measure's name, and a report's measures are the catalog's.
LEMMA CatalogNames ==
    ASSUME NEW spec, NEW table, OneDimension(spec, table)
    PROVE  /\ DOMAIN spec.dimensions = {1} /\ spec.dimensions # <<>>
           /\ spec.dimensions[1]
                \notin {"headcount", "totalCompensationMinor", "avgCompensationMinor"}
           /\ \A i \in DOMAIN spec.measures :
                spec.measures[i] \in {"headcount", "totalCompensationMinor", "avgCompensationMinor"}
<1>1. /\ Catalog["employees"].measures
           = {"headcount", "totalCompensationMinor", "avgCompensationMinor"}
      /\ DOMAIN Catalog["employees"].dimensions
           = {"department", "location", "costCenter", "status"}
  BY DEF Catalog
<1>2. /\ ToSet(spec.dimensions) \subseteq DOMAIN Catalog["employees"].dimensions
      /\ ToSet(spec.measures) \subseteq Catalog["employees"].measures
  BY CompiledDimensions DEF OneDimension
<1>3. spec.dimensions \in Seq(STRING) /\ Len(spec.dimensions) = 1
  BY DEF OneDimension, ReportSpecs
<1>4. DOMAIN spec.dimensions = {1} /\ spec.dimensions # <<>>
  BY <1>3
<1> QED  BY <1>1, <1>2, <1>4 DEF ToSet

\* What is given to sort by is a measure or the dimension.
LEMMA GivenKeys ==
    ASSUME NEW spec, NEW table, OneDimension(spec, table), NEW i \in DOMAIN spec.sort
    PROVE  spec.sort[i] \in SortKeys(spec)
<1> DEFINE dataset == Catalog["employees"]
           refused == {k \in DOMAIN spec.filters : FilterError(dataset, spec.filters[k]) # "ok"}
           D == ToSet(spec.dimensions) \subseteq DOMAIN dataset.dimensions
           M == ToSet(spec.measures) \subseteq dataset.measures
           first == FilterError(dataset, spec.filters[Min(refused)])
           columns == spec.dimensions \o spec.measures
           sorted == \E k \in DOMAIN spec.sort : spec.sort[k].key \notin ToSet(columns)
<1>1. compileReport(spec) =
        IF ~D THEN "UNKNOWN_DIMENSION" ELSE IF ~M THEN "UNKNOWN_MEASURE"
        ELSE IF refused # {} THEN first ELSE IF sorted THEN "INVALID_SORT" ELSE "ok"
  <2>1. spec.dataset = "employees" /\ "employees" \in DOMAIN Catalog
    BY DEF OneDimension, Catalog
  <2> QED  BY <2>1 DEF compileReport
<1>2. refused = {}
  <2>1. SUFFICES ASSUME refused # {} PROVE FALSE
    OBVIOUS
  <2>2. first # "ok"
    <3>1. refused \subseteq Nat
      BY DEF OneDimension, ReportSpecs
    <3> HIDE DEF refused
    <3>2. PICK k \in refused : \A other \in refused : k <= other
      BY <2>1, <3>1, LeastNatural
    <3>3. Min(refused) \in refused
      BY <3>2 DEF Min
    <3> QED  BY <3>3 DEF refused
  <2>3. compileReport(spec) # "ok"
    <3> HIDE DEF D, M, refused, first, sorted
    <3> QED  BY <1>1, <2>1, <2>2
  <2> QED  BY <2>3 DEF OneDimension
<1>3. ~sorted
  <2> HIDE DEF D, M, refused, first, sorted
  <2> QED  BY <1>1, <1>2 DEF OneDimension
<1> HIDE DEF dataset, refused, D, M, first
<1>4. /\ spec.dimensions \in Seq(STRING) /\ spec.measures \in Seq(STRING)
      /\ spec.sort[i] \in [key : STRING, descending : BOOLEAN]
  <2>1. /\ spec.dimensions \in Seq(STRING) /\ spec.measures \in Seq(STRING)
        /\ spec.sort \in Seq([key : STRING, descending : BOOLEAN])
    BY DEF OneDimension, ReportSpecs
  <2> DEFINE Key == [key : STRING, descending : BOOLEAN]
  <2>2. spec.sort \in Seq(Key)
    BY <2>1
  <2> HIDE DEF Key
  <2>3. spec.sort[i] \in Key
    BY <2>2
  <2> QED  BY <2>1, <2>3 DEF Key
<1>5. PICK j \in DOMAIN columns : spec.sort[i].key = columns[j]
  BY <1>3 DEF ToSet
<1>6. columns[j] = spec.dimensions[1] \/ \E k \in DOMAIN spec.measures : columns[j] = spec.measures[k]
  <2>1. /\ Len(columns) = Len(spec.dimensions) + Len(spec.measures)
        /\ DOMAIN columns = 1..Len(columns) /\ DOMAIN spec.measures = 1..Len(spec.measures)
        /\ \A k \in 1..Len(columns) : columns[k] =
             IF k <= Len(spec.dimensions) THEN spec.dimensions[k]
             ELSE spec.measures[k - Len(spec.dimensions)]
    <3>1. columns \in Seq(STRING)
      BY <1>4
    <3>2. /\ Len(columns) = Len(spec.dimensions) + Len(spec.measures)
          /\ \A k \in 1..(Len(spec.dimensions) + Len(spec.measures)) : columns[k] =
               IF k <= Len(spec.dimensions) THEN spec.dimensions[k]
               ELSE spec.measures[k - Len(spec.dimensions)]
      BY <1>4, ConcatProperties
    <3>3. DOMAIN spec.measures = 1..Len(spec.measures)
      BY <1>4
    <3> HIDE DEF columns
    <3>4. DOMAIN columns = 1..Len(columns)
      BY <3>1
    <3> QED  BY <3>2, <3>3, <3>4
  <2>2. Len(spec.dimensions) = 1 /\ Len(spec.measures) \in Nat
    BY <1>4 DEF OneDimension
  <2> HIDE DEF columns
  <2>3. CASE j <= 1
    BY <1>5, <2>1, <2>2, <2>3
  <2>4. CASE ~(j <= 1)
    <3>1. j - 1 \in DOMAIN spec.measures /\ columns[j] = spec.measures[j - 1]
      BY <1>5, <2>1, <2>2, <2>4
    <3> QED  BY <3>1
  <2> QED  BY <2>3, <2>4
<1>7. spec.sort[i].key
        \in {"headcount", "totalCompensationMinor", "avgCompensationMinor", spec.dimensions[1]}
  BY <1>5, <1>6, CatalogNames
<1> QED  BY <1>4, <1>7 DEF SortKeys

\* The order is made of such keys, and has the dimension among them.
LEMMA OrderKeys ==
    ASSUME NEW spec, NEW table, OneDimension(spec, table)
    PROVE  /\ compileOrderBy(spec) \in Seq(SortKeys(spec))
           /\ \E i \in DOMAIN compileOrderBy(spec) : compileOrderBy(spec)[i].key = spec.dimensions[1]
<1> DEFINE first == [key |-> spec.measures[1], descending |-> TRUE]
           given == IF spec.sort # <<>> THEN spec.sort ELSE <<first>>
           tiebreaker == [key |-> spec.dimensions[1], descending |-> FALSE]
<1>1. /\ spec.dimensions # <<>> /\ spec.sort \in Seq([key : STRING, descending : BOOLEAN])
      /\ spec.measures \in Seq(STRING) /\ spec.measures # <<>>
  BY CatalogNames DEF OneDimension, ReportSpecs
<1>2. compileOrderBy(spec) = IF tiebreaker \in ToSet(given) THEN given ELSE Append(given, tiebreaker)
  BY <1>1 DEF compileOrderBy
<1>3. given \in Seq(SortKeys(spec))
  <2>1. CASE spec.sort # <<>>
    <3>1. \A i \in 1..Len(spec.sort) : spec.sort[i] \in SortKeys(spec)
      BY <1>1, GivenKeys
    <3> QED  BY <1>1, <2>1, <3>1
  <2>2. CASE spec.sort = <<>>
    <3>1. 1 \in DOMAIN spec.measures
      BY <1>1
    <3>2. first \in SortKeys(spec)
      BY <3>1, CatalogNames DEF SortKeys
    <3> HIDE DEF first
    <3> QED  BY <2>2, <3>2
  <2> QED  BY <2>1, <2>2
<1>4. tiebreaker.key = spec.dimensions[1] /\ tiebreaker \in SortKeys(spec)
  BY DEF SortKeys
<1> HIDE DEF given, tiebreaker
<1>5. CASE tiebreaker \in ToSet(given)
  BY <1>2, <1>3, <1>4, <1>5 DEF ToSet
<1>6. CASE tiebreaker \notin ToSet(given)
  <2>1. compileOrderBy(spec) = Append(given, tiebreaker) /\ Len(given) \in Nat
    BY <1>2, <1>3, <1>6
  <2>2. /\ Len(given) + 1 \in DOMAIN Append(given, tiebreaker)
        /\ Append(given, tiebreaker)[Len(given) + 1] = tiebreaker
        /\ Append(given, tiebreaker) \in Seq(SortKeys(spec))
    BY <1>3, <1>4
  <2> QED  BY <1>4, <2>1, <2>2
<1> QED  BY <1>5, <1>6

\* The groups of one dimension have a row each, and share its value.
LEMMA GroupsOfOne ==
    ASSUME NEW spec, NEW table, OneDimension(spec, table), NEW g \in GroupsOf(spec, table)
    PROVE  /\ (CHOOSE row \in g : TRUE) \in g
           /\ (CHOOSE row \in g : TRUE) \in table
           /\ \A h \in GroupsOf(spec, table) :
                (CHOOSE row \in g : TRUE)[spec.dimensions[1]]
                  = (CHOOSE row \in h : TRUE)[spec.dimensions[1]] => g = h
<1> DEFINE key == spec.dimensions[1]
           Group(k) == {row \in Kept(spec, table) : GroupKey(spec, row) = k}
<1>1. DOMAIN spec.dimensions = {1} /\ spec.dimensions # <<>>
  BY CatalogNames
<1>2. GroupsOf(spec, table) = {Group(k) : k \in {GroupKey(spec, row) : row \in Kept(spec, table)}}
  BY <1>1 DEF GroupsOf, Kept, GroupKey
<1>3. PICK a \in Kept(spec, table) : g = Group(GroupKey(spec, a))
  BY <1>2
<1>4. (CHOOSE row \in g : TRUE) \in g
  BY <1>3
<1>5. g \subseteq table
  BY <1>3 DEF Kept
<1>6. ASSUME NEW h \in GroupsOf(spec, table),
             (CHOOSE row \in g : TRUE)[key] = (CHOOSE row \in h : TRUE)[key]
      PROVE  g = h
  <2>1. PICK b \in Kept(spec, table) : h = Group(GroupKey(spec, b))
    BY <1>2
  <2>2. (CHOOSE row \in h : TRUE) \in h
    BY <2>1
  <2>3. PICK c \in g, d \in h : c[key] = d[key]
    BY <1>4, <1>6, <2>2
  <2>4. \A row : GroupKey(spec, row) = [i \in {1} |-> row[key]]
    BY <1>1 DEF GroupKey
  <2>5. GroupKey(spec, c) = GroupKey(spec, a) /\ GroupKey(spec, d) = GroupKey(spec, b)
    BY <1>3, <2>1
  <2>6. GroupKey(spec, c) = GroupKey(spec, d)
    BY <2>3, <2>4
  <2> QED  BY <1>3, <2>1, <2>5, <2>6
<1> QED  BY <1>4, <1>5, <1>6

\* Under every key of the order a group stands at a number.
LEMMA PlaceIsInt ==
    ASSUME NEW spec, NEW table, OneDimension(spec, table), NEW g \in GroupsOf(spec, table),
           NEW i \in DOMAIN compileOrderBy(spec)
    PROVE  Place(compileOrderBy(spec)[i].key, g) \in Int
<1> DEFINE key == compileOrderBy(spec)[i].key
           value == (CHOOSE row \in g : TRUE)[key]
<1>1. key \in {"headcount", "totalCompensationMinor", "avgCompensationMinor", spec.dimensions[1]}
  <2>1. compileOrderBy(spec) \in Seq(SortKeys(spec))
    BY OrderKeys
  <2>2. compileOrderBy(spec)[i] \in SortKeys(spec)
    BY <2>1
  <2> QED  BY <2>2 DEF SortKeys
<1>2. EmployeeTable(table) /\ g \in SUBSET table
  BY GroupsPartition DEF OneDimension
<1>3. headcount(g) \in Int /\ totalCompensationMinor(g) \in Int /\ avgCompensationMinor(g) \in Int
  BY <1>2, MeasuresAreNat, AverageIsInt
<1>4. key = spec.dimensions[1] => Collation[value] \in Int
  <2>1. key = spec.dimensions[1] => value \in DOMAIN Collation
    BY GroupsOfOne DEF OneDimension
  <2> HIDE DEF value
  <2> QED  BY <2>1, CollationAssumption
<1>5. Place(key, g) \in {headcount(g), totalCompensationMinor(g), avgCompensationMinor(g)}
        \/ (key = spec.dimensions[1] /\ Place(key, g) = Collation[value])
  BY <1>1 DEF Place
<1> HIDE DEF key, value
<1>6. Place(key, g) \in Int
  BY <1>3, <1>4, <1>5
<1> QED  BY <1>6 DEF key

\* With one dimension, groups that stand at one place under the whole order are one group.
LEMMA GroupsNeverTie ==
    ASSUME NEW spec, NEW table, OneDimension(spec, table),
           NEW g \in GroupsOf(spec, table), NEW h \in GroupsOf(spec, table),
           \A i \in DOMAIN compileOrderBy(spec) :
             Place(compileOrderBy(spec)[i].key, g) = Place(compileOrderBy(spec)[i].key, h)
    PROVE  g = h
<1> DEFINE key == spec.dimensions[1]
           v == (CHOOSE row \in g : TRUE)[key]
           w == (CHOOSE row \in h : TRUE)[key]
<1>1. key \notin {"headcount", "totalCompensationMinor", "avgCompensationMinor"}
  BY CatalogNames
<1>2. Place(key, g) = Place(key, h)
  BY OrderKeys
<1>3. Collation[v] = Collation[w]
  BY <1>1, <1>2 DEF Place
<1>4. v \in DOMAIN Collation /\ w \in DOMAIN Collation
  BY GroupsOfOne DEF OneDimension
<1>5. v = w
  <2> HIDE DEF v, w
  <2> QED  BY <1>3, <1>4, CollationAssumption
<1> QED  BY <1>5, GroupsOfOne

\* So that of two groups one comes first.
LEMMA Ordered ==
    ASSUME NEW spec, NEW table, OneDimension(spec, table),
           NEW g \in GroupsOf(spec, table), NEW h \in GroupsOf(spec, table), g # h
    PROVE  Before(spec, g, h) \/ Before(spec, h, g)
<1> DEFINE order == compileOrderBy(spec)
           differ == {i \in DOMAIN order : Place(order[i].key, g) # Place(order[i].key, h)}
<1>1. order \in Seq(SortKeys(spec))
  BY OrderKeys
<1>2. \A i \in DOMAIN order : Place(order[i].key, g) \in Int /\ Place(order[i].key, h) \in Int
  BY PlaceIsInt
<1>3. differ # {}
  BY GroupsNeverTie
<1> HIDE DEF order
<1>4. PICK i \in differ : \A k \in differ : i <= k
  <2>1. differ \subseteq Nat
    BY <1>1
  <2> HIDE DEF differ
  <2> QED  BY <1>3, <2>1, LeastNatural
<1>5. /\ i \in DOMAIN order /\ Place(order[i].key, g) # Place(order[i].key, h)
      /\ \A j \in 1..(i - 1) : Place(order[j].key, g) = Place(order[j].key, h)
  <2>1. DOMAIN order = 1..Len(order) /\ Len(order) \in Nat
    BY <1>1
  <2> QED  BY <1>4, <2>1
<1>6. \/ Place(order[i].key, g) > Place(order[i].key, h)
      \/ Place(order[i].key, g) < Place(order[i].key, h)
  BY <1>2, <1>5
<1>7. /\ Place(order[i].key, g) > Place(order[i].key, h)
           <=> Place(order[i].key, h) < Place(order[i].key, g)
      /\ Place(order[i].key, g) < Place(order[i].key, h)
           <=> Place(order[i].key, h) > Place(order[i].key, g)
  BY <1>2, <1>5
<1> QED  BY <1>5, <1>6, <1>7 DEF Before, order

\* With one dimension there is one page, wherever the limit cuts.
LEMMA OnePage ==
    ASSUME NEW spec, NEW table, OneDimension(spec, table),
           NEW page \in Pages(spec, table), NEW other \in Pages(spec, table)
    PROVE  page = other
<1> DEFINE groups == GroupsOf(spec, table)
<1>1. IsFiniteSet(groups)
  BY GroupsPartition DEF OneDimension
<1>2. \A p \in {page, other} :
        /\ p \subseteq groups /\ Cardinality(p) <= spec.limit
        /\ p = groups \/ Cardinality(p) = spec.limit
        /\ \A g \in p, h \in groups \ p : ~Before(spec, h, g)
  BY DEF Pages
<1>3. \A g, h \in groups : g # h => Before(spec, g, h) \/ Before(spec, h, g)
  BY Ordered
<1> HIDE DEF groups
<1>4. IsFiniteSet(page) /\ IsFiniteSet(other) /\ Cardinality(groups) \in Nat
  BY <1>1, <1>2, FS_Subset, FS_CardinalityType
<1>5. Cardinality(page) \in Nat /\ Cardinality(other) \in Nat
  BY <1>4, FS_CardinalityType
<1>6. Cardinality(page) <= Cardinality(groups) /\ Cardinality(other) <= Cardinality(groups)
  BY <1>1, <1>2, FS_Subset
<1>7. spec.limit \in Nat
  BY DEF OneDimension, ReportSpecs
<1>8. Cardinality(page) = Cardinality(other)
  BY <1>2, <1>5, <1>6, <1>7
<1>9. CASE page \subseteq other
  BY <1>4, <1>8, <1>9, FS_Subset
<1>10. CASE other \subseteq page
  BY <1>4, <1>8, <1>10, FS_Subset
<1>11. CASE ~(page \subseteq other) /\ ~(other \subseteq page)
  <2>1. PICK g \in page \ other, h \in other \ page : TRUE
    BY <1>11
  <2>2. g \in groups /\ h \in groups /\ g # h
    BY <1>2, <2>1
  <2>3. ~Before(spec, h, g) /\ ~Before(spec, g, h)
    BY <1>2, <2>1, <2>2
  <2> QED  BY <1>3, <2>2, <2>3
<1> QED  BY <1>9, <1>10, <1>11

\* Reports over one table agree, whatever the table and the report.
LEMMA ReportsAlwaysAgree ==
    ASSUME NEW spec, NEW table, ReportCase([spec |-> spec, table |-> table]),
           compileReport(spec) = "ok", NEW page \in Pages(spec, table)
    PROVE  ReportsAgree(spec, table, page)
<1> DEFINE Widened(filters) == [spec EXCEPT !.dimensions = <<>>, !.sort = <<>>, !.filters = filters]
           Grand(filters) == CHOOSE answer \in Pages(Widened(filters), table) : TRUE
           Status(op) == <<[field |-> "status", op |-> op, values |-> {"ACTIVE"}, list |-> FALSE]>>
<1>1. spec \in ReportSpecs /\ EmployeeTable(table)
  BY DEF ReportCase
<1>2. \A filters : Grand(filters) = GroupsOf(Widened(filters), table)
  <2> SUFFICES ASSUME NEW filters PROVE Grand(filters) = GroupsOf(Widened(filters), table)
    OBVIOUS
  <2>1. Widened(filters).dimensions = <<>> /\ Widened(filters).limit \in Nat \ {0}
    BY <1>1 DEF ReportSpecs
  <2> HIDE DEF Widened
  <2> QED  BY <2>1, GrandPage
<1>3. /\ Kept(Widened(spec.filters), table) = Kept(spec, table)
      /\ Widened(<<>>) = [GrandTotal(spec) EXCEPT !.filters = <<>>]
      /\ \A op : Widened(Status(op)) = ByStatus(spec, op, "ACTIVE")
  BY <1>1 DEF ReportSpecs, Kept, GrandTotal, ByStatus
<1>4. /\ Total(Grand(spec.filters), headcount) = headcount(Kept(spec, table))
      /\ Total(Grand(spec.filters), totalCompensationMinor)
           = totalCompensationMinor(Kept(spec, table))
  <2> HIDE DEF Widened, Grand
  <2> QED  BY <1>1, <1>2, <1>3, TotalOfKept
<1>5. /\ Total(Grand(Status("eq")), headcount) + Total(Grand(Status("ne")), headcount)
          = Total(Grand(<<>>), headcount)
      /\ Total(Grand(<<>>), headcount)
           = Cardinality({row.id : row \in {r \in table : ~r.deleted}})
  <2>1. /\ Grand(Status("eq")) = GroupsOf(ByStatus(spec, "eq", "ACTIVE"), table)
        /\ Grand(Status("ne")) = GroupsOf(ByStatus(spec, "ne", "ACTIVE"), table)
        /\ Grand(<<>>) = GroupsOf([GrandTotal(spec) EXCEPT !.filters = <<>>], table)
    <3> HIDE DEF Widened, Grand, Status
    <3> QED  BY <1>2, <1>3
  <2>2. /\ Total(GroupsOf(ByStatus(spec, "eq", "ACTIVE"), table), headcount)
             + Total(GroupsOf(ByStatus(spec, "ne", "ACTIVE"), table), headcount)
           = Total(GroupsOf([GrandTotal(spec) EXCEPT !.filters = <<>>], table), headcount)
        /\ Total(GroupsOf([GrandTotal(spec) EXCEPT !.filters = <<>>], table), headcount)
             = Cardinality({row.id : row \in {r \in table : ~r.deleted}})
    BY <1>1, SharesAddUp
  <2> HIDE DEF Widened, Grand, Status
  <2> QED  BY <2>1, <2>2
<1>6. Len(spec.dimensions) = 1 => Pages(spec, table) = {page}
  <2> SUFFICES ASSUME Len(spec.dimensions) = 1 PROVE Pages(spec, table) = {page}
    OBVIOUS
  <2>1. OneDimension(spec, table)
    <3>1. DOMAIN spec.dimensions = {1}
      BY <1>1 DEF ReportSpecs
    <3>2. spec.dimensions[1] \in ToSet(spec.dimensions)
      BY <3>1 DEF ToSet
    <3>3. spec.dimensions[1] \in DOMAIN Catalog["employees"].dimensions
      BY <3>2, CompiledDimensions DEF ReportCase
    <3> QED  BY <3>2, <3>3 DEF OneDimension, ReportCase
  <2> QED  BY <2>1, OnePage
<1>7. /\ Total(page, headcount) <= Total(Grand(spec.filters), headcount)
      /\ Total(page, totalCompensationMinor) <= Total(Grand(spec.filters), totalCompensationMinor)
      /\ Cardinality(page) < spec.limit =>
           /\ Total(page, headcount) = Total(Grand(spec.filters), headcount)
           /\ Total(page, totalCompensationMinor)
                = Total(Grand(spec.filters), totalCompensationMinor)
  <2>1. /\ Total(page, headcount) <= headcount(Kept(spec, table))
        /\ Total(page, totalCompensationMinor) <= totalCompensationMinor(Kept(spec, table))
        /\ Cardinality(page) < spec.limit =>
             /\ Total(page, headcount) = headcount(Kept(spec, table))
             /\ Total(page, totalCompensationMinor) = totalCompensationMinor(Kept(spec, table))
    BY <1>1, PageTotals
  <2> HIDE DEF Widened, Grand
  <2> QED  BY <1>4, <2>1
<1> QED  BY <1>5, <1>6, <1>7 DEF ReportsAgree

-----------------------------------------------------------------------------
(* Arithmetic. *)

\* Products by a natural number keep the order.
LEMMA ProductMonotone ==
    ASSUME NEW a \in Nat, NEW b \in Int, NEW c \in Int, b <= c
    PROVE  a * b <= a * c
<1>1. c - b \in Nat
  OBVIOUS
<1>2. \A n \in Nat : a * n \in Nat
  OBVIOUS
<1>3. a * (c - b) \in Nat /\ a * (c - b) = a * c - a * b
  BY <1>1, <1>2
<1> QED  BY <1>3

\* What a quotient rounded down is.
LEMMA Quotients ==
    ASSUME NEW a \in Int, NEW b \in Nat \ {0}
    PROVE  a \div b \in Int /\ b * (a \div b) <= a /\ a < b * (a \div b) + b
OBVIOUS

\* A rounded share h of n in d-ths: twice h times d is 2 n, give or take d.
LEMMA HalfUpIs ==
    ASSUME NEW n \in Nat, NEW d \in Nat \ {0}
    PROVE  /\ HalfUp(<<n, d>>) \in Nat
           /\ (2 * d) * HalfUp(<<n, d>>) <= 2 * n + d
           /\ 2 * n + d < (2 * d) * HalfUp(<<n, d>>) + 2 * d
<1>1. HalfUp(<<n, d>>) = (2 * n + d) \div (2 * d)
  BY DEF HalfUp, Negative, Magnitude
<1>2. 2 * n + d \in Nat /\ 2 * d \in Nat \ {0}
  OBVIOUS
<1>3. /\ HalfUp(<<n, d>>) \in Int
      /\ (2 * d) * HalfUp(<<n, d>>) <= 2 * n + d
      /\ 2 * n + d < (2 * d) * HalfUp(<<n, d>>) + 2 * d
  <2> DEFINE a == 2 * n + d
             b == 2 * d
  <2>1. a \in Int /\ b \in Nat \ {0} /\ HalfUp(<<n, d>>) = a \div b
    BY <1>1, <1>2
  <2> HIDE DEF a, b
  <2>2. a \div b \in Int /\ b * (a \div b) <= a /\ a < b * (a \div b) + b
    BY <2>1, Quotients
  <2>3. HalfUp(<<n, d>>) \in Int /\ b * HalfUp(<<n, d>>) <= a /\ a < b * HalfUp(<<n, d>>) + b
    BY <2>1, <2>2
  <2> QED  BY <2>3 DEF a, b
<1>4. ASSUME HalfUp(<<n, d>>) <= -1 PROVE FALSE
  <2>1. (2 * d) * HalfUp(<<n, d>>) <= (2 * d) * (-1)
    BY <1>2, <1>3, <1>4, ProductMonotone
  <2> QED  BY <1>3, <2>1
<1> QED  BY <1>3, <1>4

\* A whole number is not changed by rounding.
LEMMA WholeRounds ==
    ASSUME NEW n \in Nat
    PROVE  Rounded(Whole(n)) = n
BY HalfUpIs DEF Rounded, roundToMinor, Whole

\* The rounding of amounts is half up.
LEMMA RoundedIs ==
    ASSUME NEW x
    PROVE  Rounded(x) = HalfUp(x)
BY DEF Rounded, roundToMinor

\* A product of a positive number decides an inequality.
LEMMA Cancel ==
    ASSUME NEW p \in Nat \ {0}, NEW a \in Int, NEW b \in Int, p * a < p * b
    PROVE  a < b
<1> SUFFICES ASSUME b <= a PROVE FALSE
  OBVIOUS
<1>1. p * b <= p * a
  BY ProductMonotone
<1> QED  BY <1>1

\* A share at a rate of c in q is at most the amount it is taken of.
LEMMA ShareWithin ==
    ASSUME NEW p \in Nat \ {0}, NEW q \in Nat \ {0}, NEW c \in Nat, c <= q,
           NEW x \in Nat, NEW n \in Nat, n <= p * (c * x)
    PROVE  HalfUp(<<n, q * p>>) \in 0..x
<1> DEFINE h == HalfUp(<<n, q * p>>)
<1>1. q * p \in Nat \ {0}
  OBVIOUS
<1>2. h \in Nat /\ (2 * (q * p)) * h <= 2 * n + q * p
  BY <1>1, HalfUpIs
<1> HIDE DEF h
<1> SUFFICES ASSUME x + 1 <= h PROVE FALSE
  BY <1>2 DEF h
<1>3. c * x \in Nat /\ q * h \in Nat /\ c * x <= q * x
  <2>1. x * c <= x * q
    BY ProductMonotone
  <2> QED  BY <1>2, <2>1
<1>4. p * (2 * (q * h)) <= p * (2 * (c * x) + q)
  <2>1. (2 * (q * p)) * h = p * (2 * (q * h))
    BY <1>2
  <2>2. 2 * n + q * p <= 2 * (p * (c * x)) + q * p
    BY <1>1, <1>3
  <2>3. 2 * (p * (c * x)) + q * p = p * (2 * (c * x) + q)
    BY <1>3
  <2> QED  BY <1>1, <1>2, <1>3, <2>1, <2>2, <2>3
<1>5. 2 * (q * h) < 2 * (c * x) + q + 1
  <2>1. p * (2 * (c * x) + q) < p * (2 * (c * x) + q + 1)
    <3>1. p * (2 * (c * x) + q + 1) = p * (2 * (c * x) + q) + p
      BY <1>3
    <3> QED  BY <1>3, <3>1
  <2>2. p * (2 * (q * h)) < p * (2 * (c * x) + q + 1)
    BY <1>3, <1>4, <2>1
  <2> QED  BY <1>3, <2>2, Cancel
<1>6. q * (x + 1) <= q * h /\ q * (x + 1) = q * x + q
  BY <1>2, ProductMonotone
<1> QED  BY <1>3, <1>5, <1>6

\* What a share at a rate of c in q grows by is that rate on the growth, and less than one.
LEMMA ShareRises ==
    ASSUME NEW p \in Nat \ {0}, NEW q \in Nat \ {0}, NEW c \in Nat, NEW growth \in Nat,
           NEW n \in Nat, NEW m \in Nat, m <= n + p * (c * growth)
    PROVE  q * (HalfUp(<<m, q * p>>) - HalfUp(<<n, q * p>>)) < c * growth + q
<1> DEFINE h == HalfUp(<<n, q * p>>)
           k == HalfUp(<<m, q * p>>)
<1>1. q * p \in Nat \ {0}
  OBVIOUS
<1>2. /\ h \in Nat /\ 2 * n + q * p < (2 * (q * p)) * h + 2 * (q * p)
      /\ k \in Nat /\ (2 * (q * p)) * k <= 2 * m + q * p
  BY <1>1, HalfUpIs
<1> HIDE DEF h, k
<1>3. q * h \in Nat /\ q * k \in Nat /\ c * growth \in Nat
  BY <1>2
<1>4. p * (q * k) < p * (q * h + c * growth + q)
  <2>1. /\ (2 * (q * p)) * k = 2 * (p * (q * k)) /\ (2 * (q * p)) * h = 2 * (p * (q * h))
        /\ p * (q * h + c * growth + q) = p * (q * h) + p * (c * growth) + q * p
    BY <1>2, <1>3
  <2>2. p * (q * k) \in Nat /\ p * (q * h) \in Nat /\ p * (c * growth) \in Nat
    BY <1>3
  <2> QED  BY <1>1, <1>2, <2>1, <2>2
<1>5. q * k < q * h + c * growth + q
  BY <1>3, <1>4, Cancel
<1>6. q * (k - h) = q * k - q * h
  BY <1>2
<1> QED  BY <1>3, <1>5, <1>6 DEF h, k

\* A share of more is not less.
LEMMA ShareGrows ==
    ASSUME NEW d \in Nat \ {0}, NEW n \in Nat, NEW m \in Nat, n <= m
    PROVE  HalfUp(<<n, d>>) <= HalfUp(<<m, d>>)
<1> DEFINE h == HalfUp(<<n, d>>)
           k == HalfUp(<<m, d>>)
<1>1. /\ h \in Nat /\ (2 * d) * h <= 2 * n + d
      /\ k \in Nat /\ 2 * m + d < (2 * d) * k + 2 * d
  BY HalfUpIs
<1> HIDE DEF h, k
<1>2. (2 * d) * h < (2 * d) * (k + 1)
  <2>1. (2 * d) * (k + 1) = (2 * d) * k + 2 * d
    BY <1>1
  <2> QED  BY <1>1, <2>1
<1>3. h < k + 1
  <2>1. 2 * d \in Nat \ {0}
    OBVIOUS
  <2> QED  BY <1>1, <1>2, <2>1, Cancel
<1> QED  BY <1>1, <1>3 DEF h, k

\* A whole number more is a whole number more after rounding.
LEMMA WholeRise ==
    ASSUME NEW d \in Nat \ {0}, NEW n \in Nat, NEW m \in Nat, NEW k \in Nat, n + d * k <= m
    PROVE  HalfUp(<<n, d>>) + k <= HalfUp(<<m, d>>)
<1> DEFINE h == HalfUp(<<n, d>>)
           g == HalfUp(<<m, d>>)
<1>1. /\ h \in Nat /\ (2 * d) * h <= 2 * n + d
      /\ g \in Nat /\ 2 * m + d < (2 * d) * g + 2 * d
  BY HalfUpIs
<1> HIDE DEF h, g
<1>2. (2 * d) * (h + k) < (2 * d) * (g + 1)
  <2>1. /\ (2 * d) * (g + 1) = (2 * d) * g + 2 * d
        /\ (2 * d) * (h + k) = (2 * d) * h + 2 * (d * k)
    BY <1>1
  <2>2. (2 * d) * h \in Nat /\ d * k \in Nat /\ (2 * d) * g \in Nat
    BY <1>1
  <2> QED  BY <1>1, <2>1, <2>2
<1>3. h + k < g + 1
  <2>1. 2 * d \in Nat \ {0}
    OBVIOUS
  <2> QED  BY <1>1, <1>2, <2>1, Cancel
<1> QED  BY <1>1, <1>3 DEF h, g

-----------------------------------------------------------------------------
(* Brackets. *)

\* The units of a sum: a quotient by a positive number keeps the order.
LEMMA QuotientGrows ==
    ASSUME NEW u \in Nat \ {0}, NEW a \in Nat, NEW b \in Nat, a <= b
    PROVE  a \div u \in Nat /\ b \div u \in Nat /\ a \div u <= b \div u
<1> DEFINE q == a \div u
           r == b \div u
<1>1. /\ q \in Int /\ u * q <= a /\ a < u * q + u
      /\ r \in Int /\ u * r <= b /\ b < u * r + u
  BY Quotients
<1> HIDE DEF q, r
<1>2. u * q < u * (r + 1) /\ u * (-1) < u * q /\ u * (-1) < u * r
  <2>1. u * (r + 1) = u * r + u /\ u * (-1) = -u /\ u * r \in Int /\ u * q \in Int
    BY <1>1
  <2> QED  BY <1>1, <2>1
<1>3. q < r + 1 /\ -1 < q /\ -1 < r
  BY <1>1, <1>2, Cancel
<1> QED  BY <1>1, <1>3 DEF q, r

\* Bands from zero upwards, at rates of up to a maximum.
Bands(brackets, max) ==
  /\ max \in Nat
  /\ brackets \in Seq([from : Nat, rate : 0..max])
  /\ Len(brackets) >= 1 /\ brackets[1].from = 0
  /\ \A i \in 1..(Len(brackets) - 1) : brackets[i].from <= brackets[i + 1].from

\* What the bands up to the k-th hold of an amount.
Held(amount, brackets, k) ==
  IF k = 0 THEN 0
  ELSE IF k < Len(brackets) THEN Least(amount, brackets[k + 1].from) ELSE amount

\* The tax in the bands up to the k-th.
TaxUpTo(amount, brackets, k) ==
  Sum([i \in DOMAIN brackets |-> Slice(amount, brackets, i) * brackets[i].rate], 1..k)

\* What bands are: ascending from zero, at rates of up to max.
LEMMA BandFacts ==
    ASSUME NEW max, NEW brackets, Bands(brackets, max)
    PROVE  /\ max \in Nat /\ Len(brackets) \in Nat /\ Len(brackets) >= 1
           /\ DOMAIN brackets = 1..Len(brackets)
           /\ brackets[1].from = 0
           /\ \A i \in 1..Len(brackets) : /\ brackets[i].from \in Nat /\ brackets[i].rate \in 0..max
                                           /\ brackets[i].rate \in Nat
           /\ \A i \in 1..(Len(brackets) - 1) : brackets[i].from <= brackets[i + 1].from
<1>1. max \in Nat /\ brackets \in Seq([from : Nat, rate : 0..max])
  BY DEF Bands
<1>2. Len(brackets) \in Nat /\ DOMAIN brackets = 1..Len(brackets)
  BY <1>1
<1>3. ASSUME NEW i \in 1..Len(brackets)
      PROVE  brackets[i].from \in Nat /\ brackets[i].rate \in 0..max /\ brackets[i].rate \in Nat
  <2>1. brackets[i] \in [from : Nat, rate : 0..max]
    <3> DEFINE B == [from : Nat, rate : 0..max]
    <3>1. brackets \in Seq(B)
      BY <1>1
    <3> HIDE DEF B
    <3>2. brackets[i] \in B
      BY <1>2, <3>1
    <3> QED  BY <3>2 DEF B
  <2> QED  BY <1>1, <2>1
<1> QED  BY <1>1, <1>2, <1>3 DEF Bands

\* A band takes what the bands up to it hold beyond those below.
LEMMA SlicesHold ==
    ASSUME NEW max, NEW brackets, Bands(brackets, max), NEW x \in Nat,
           NEW k \in 1..Len(brackets)
    PROVE  /\ Held(x, brackets, k) \in Nat /\ Held(x, brackets, k - 1) \in Nat
           /\ Slice(x, brackets, k) = Held(x, brackets, k) - Held(x, brackets, k - 1)
           /\ Slice(x, brackets, k) \in Nat
<1>1. Len(brackets) \in Nat /\ brackets[k].from \in Nat /\ (k = 1 => brackets[k].from = 0)
  BY BandFacts
<1>2. ASSUME k < Len(brackets)
      PROVE  brackets[k + 1].from \in Nat /\ brackets[k].from <= brackets[k + 1].from
  <2>1. k \in 1..(Len(brackets) - 1) /\ k + 1 \in 1..Len(brackets)
    BY <1>1, <1>2
  <2> QED  BY <2>1, BandFacts
<1>3. k - 1 = 0 \/ (k - 1 < Len(brackets) /\ k - 1 # 0)
  BY <1>1
<1>4. (k - 1) + 1 = k
  OBVIOUS
<1> QED  BY <1>1, <1>2, <1>3, <1>4 DEF Held, Slice, Least, Greatest

\* More pay puts no less into each band.
LEMMA SlicesGrow ==
    ASSUME NEW max, NEW brackets, Bands(brackets, max), NEW x \in Nat, NEW y \in Nat, x <= y,
           NEW k \in 1..Len(brackets)
    PROVE  Slice(x, brackets, k) <= Slice(y, brackets, k)
<1>1. Len(brackets) \in Nat /\ brackets[k].from \in Nat
  BY BandFacts
<1>2. ASSUME k < Len(brackets)
      PROVE  brackets[k + 1].from \in Nat /\ brackets[k].from <= brackets[k + 1].from
  <2>1. k \in 1..(Len(brackets) - 1) /\ k + 1 \in 1..Len(brackets)
    BY <1>1, <1>2
  <2> QED  BY <2>1, BandFacts
<1> QED  BY <1>1, <1>2 DEF Slice, Least, Greatest

\* The tax up to a band is the tax up to the one below and that of its slice.
LEMMA TaxStep ==
    ASSUME NEW max, NEW brackets, Bands(brackets, max), NEW x \in Nat
    PROVE  /\ TaxUpTo(x, brackets, 0) = 0
           /\ \A k \in 1..Len(brackets) :
                /\ TaxUpTo(x, brackets, k)
                     = TaxUpTo(x, brackets, k - 1) + Slice(x, brackets, k) * brackets[k].rate
                /\ TaxUpTo(x, brackets, k) \in Nat /\ TaxUpTo(x, brackets, k - 1) \in Nat
           /\ bracketTax(x, brackets) = TaxUpTo(x, brackets, Len(brackets))
<1> DEFINE f == [i \in DOMAIN brackets |-> Slice(x, brackets, i) * brackets[i].rate]
<1>0. DOMAIN brackets = 1..Len(brackets) /\ Len(brackets) \in Nat
  BY BandFacts
<1>1. \A i \in 1..Len(brackets) : f[i] \in Nat /\ f[i] = Slice(x, brackets, i) * brackets[i].rate
  <2> TAKE i \in 1..Len(brackets)
  <2>1. brackets[i].rate \in Nat
    BY BandFacts
  <2>2. Slice(x, brackets, i) \in Nat
    BY SlicesHold
  <2> QED  BY <1>0, <2>1, <2>2
<1> HIDE DEF f
<1>2. \A k \in 0..Len(brackets) : Sum(f, 1..k) \in Nat
  <2> TAKE k \in 0..Len(brackets)
  <2>1. IsFiniteSet(1..k)
    <3>1. 1 \in Int /\ k \in Int
      BY <1>0
    <3> QED  BY <3>1, FS_Interval
  <2>2. \A i \in 1..k : f[i] \in Nat
    BY <1>0, <1>1
  <2> QED  BY <2>1, <2>2, SumNat
<1>3. Sum(f, 1..0) = 0
  <2>1. 1..0 = {}
    OBVIOUS
  <2> QED  BY <2>1, SumStep, FS_EmptySet
<1>4. ASSUME NEW k \in 1..Len(brackets)
      PROVE  Sum(f, 1..k) = f[k] + Sum(f, 1..(k - 1))
  <2>1. IsFiniteSet(1..k)
    <3>1. 1 \in Int /\ k \in Int
      BY <1>0
    <3> QED  BY <3>1, FS_Interval
  <2>2. k \in 1..k /\ (1..k) \ {k} = 1..(k - 1) /\ 1..k \subseteq 1..Len(brackets)
    BY <1>0
  <2>3. \A i \in 1..k : f[i] \in Nat
    BY <1>1, <2>2
  <2> QED  BY <2>1, <2>2, <2>3, SumRemove
<1>5. \A k : TaxUpTo(x, brackets, k) = Sum(f, 1..k)
  BY DEF TaxUpTo, f
<1>6. bracketTax(x, brackets) = Sum(f, DOMAIN brackets)
  BY DEF bracketTax, Sum, f
<1>7. ASSUME NEW k \in 1..Len(brackets)
      PROVE  /\ Sum(f, 1..k) = Sum(f, 1..(k - 1)) + Slice(x, brackets, k) * brackets[k].rate
             /\ Sum(f, 1..k) \in Nat /\ Sum(f, 1..(k - 1)) \in Nat
  <2>1. k \in 0..Len(brackets) /\ k - 1 \in 0..Len(brackets)
    BY <1>0
  <2> QED  BY <1>1, <1>2, <1>4, <2>1
<1> QED  BY <1>0, <1>3, <1>5, <1>6, <1>7

\* Up to every band, the tax on more is not less, and more by no more than the highest rate.
LEMMA ProductOfDifference ==
    ASSUME NEW a \in Int, NEW b \in Int, NEW c \in Int
    PROVE  /\ a * b \in Int /\ a * c \in Int /\ b * a \in Int
           /\ a * (b - c) = a * b - a * c /\ (b - c) * a = b * a - c * a /\ a * b = b * a
OBVIOUS

\* The tax in one more band: s and t of two amounts fall into it.
LEMMA BandRises ==
    ASSUME NEW s \in Nat, NEW t \in Nat, s <= t, NEW max \in Nat, NEW rate \in 0..max
    PROVE  /\ s * rate \in Nat /\ t * rate \in Nat
           /\ s * rate <= t * rate /\ t * rate <= s * rate + max * (t - s)
<1>1. rate \in Nat /\ rate <= max /\ t - s \in Nat
  OBVIOUS
<1>2. rate * s <= rate * t
  BY <1>1, ProductMonotone
<1>3. (t - s) * rate <= (t - s) * max
  BY <1>1, ProductMonotone
<1> QED  BY <1>1, <1>2, <1>3, ProductOfDifference

\* The tax up to each band rises with the amount, by at most the highest rate:
\* there is no first band where it does not.
LEMMA TaxRisesUpTo ==
    ASSUME NEW max, NEW brackets, Bands(brackets, max), NEW x \in Nat, NEW y \in Nat, x <= y
    PROVE  \A k \in 1..Len(brackets) :
             /\ TaxUpTo(x, brackets, k) <= TaxUpTo(y, brackets, k)
             /\ TaxUpTo(y, brackets, k)
                  <= TaxUpTo(x, brackets, k)
                       + max * (Held(y, brackets, k) - Held(x, brackets, k))
<1> DEFINE Rises(k) ==
             /\ TaxUpTo(x, brackets, k) <= TaxUpTo(y, brackets, k)
             /\ TaxUpTo(y, brackets, k)
                  <= TaxUpTo(x, brackets, k)
                       + max * (Held(y, brackets, k) - Held(x, brackets, k))
           T == {k \in 1..Len(brackets) : ~Rises(k)}
<1>0. Len(brackets) \in Nat /\ max \in Nat
  BY BandFacts
<1>1. Rises(0)
  <2>1. TaxUpTo(x, brackets, 0) = 0 /\ TaxUpTo(y, brackets, 0) = 0
    BY TaxStep
  <2> QED  BY <1>0, <2>1 DEF Held
<1> SUFFICES ASSUME T # {} PROVE FALSE
  OBVIOUS
<1>2. PICK k \in T : \A j \in T : k <= j
  <2>1. T \subseteq Nat
    BY <1>0
  <2> HIDE DEF T
  <2> QED  BY <2>1, LeastNatural
<1>3. k \in 1..Len(brackets) /\ ~Rises(k)
  OBVIOUS
<1>4. Rises(k - 1)
  <2>1. CASE k = 1
    BY <1>1, <2>1
  <2>2. CASE k # 1
    <3>1. k - 1 \in 1..Len(brackets) /\ k - 1 \notin T
      BY <1>0, <1>2, <1>3, <2>2
    <3> HIDE DEF Rises
    <3> QED  BY <3>1
  <2> QED  BY <2>1, <2>2
<1> HIDE DEF T
<1> DEFINE s == Slice(x, brackets, k)
           t == Slice(y, brackets, k)
           rate == brackets[k].rate
<1>5. /\ TaxUpTo(x, brackets, k) = TaxUpTo(x, brackets, k - 1) + s * rate
      /\ TaxUpTo(y, brackets, k) = TaxUpTo(y, brackets, k - 1) + t * rate
      /\ TaxUpTo(x, brackets, k - 1) \in Nat /\ TaxUpTo(y, brackets, k - 1) \in Nat
  BY <1>3, TaxStep
<1>6. /\ s \in Nat /\ t \in Nat /\ s <= t /\ rate \in 0..max
      /\ s = Held(x, brackets, k) - Held(x, brackets, k - 1)
      /\ t = Held(y, brackets, k) - Held(y, brackets, k - 1)
      /\ Held(x, brackets, k) \in Nat /\ Held(x, brackets, k - 1) \in Nat
      /\ Held(y, brackets, k) \in Nat /\ Held(y, brackets, k - 1) \in Nat
  <2>1. rate \in 0..max
    BY <1>3, BandFacts
  <2>2. /\ s \in Nat /\ t \in Nat /\ s <= t
    BY <1>3, SlicesHold, SlicesGrow
  <2> QED  BY <1>3, <2>1, <2>2, SlicesHold
<1> HIDE DEF s, t, rate
<1>7. /\ s * rate \in Nat /\ t * rate \in Nat
      /\ s * rate <= t * rate
      /\ t * rate <= s * rate + max * (t - s)
  BY <1>0, <1>6, BandRises
<1>8. max * (Held(y, brackets, k) - Held(x, brackets, k))
        = max * (Held(y, brackets, k - 1) - Held(x, brackets, k - 1)) + max * (t - s)
  <2> DEFINE a == Held(x, brackets, k - 1)
             b == Held(y, brackets, k - 1)
             c == Held(x, brackets, k)
             d == Held(y, brackets, k)
  <2>1. /\ a \in Nat /\ b \in Nat /\ c \in Nat /\ d \in Nat /\ s = c - a /\ t = d - b
    BY <1>6
  <2> HIDE DEF a, b, c, d
  <2>2. max * (d - c) = max * (b - a) + max * (t - s)
    BY <1>0, <2>1
  <2> QED  BY <2>2 DEF a, b, c, d
<1> DEFINE before == max * (Held(y, brackets, k - 1) - Held(x, brackets, k - 1))
           growth == max * (t - s)
           after == max * (Held(y, brackets, k) - Held(x, brackets, k))
<1>9. before \in Int /\ growth \in Int /\ after = before + growth
  <2>1. /\ Held(y, brackets, k - 1) - Held(x, brackets, k - 1) \in Int
        /\ t - s \in Int
    BY <1>6
  <2>2. \A n \in Int : max * n \in Int
    BY <1>0
  <2> QED  BY <1>8, <2>1, <2>2
<1>10. /\ TaxUpTo(x, brackets, k - 1) <= TaxUpTo(y, brackets, k - 1)
       /\ TaxUpTo(y, brackets, k - 1) <= TaxUpTo(x, brackets, k - 1) + before
       /\ t * rate <= s * rate + growth
  BY <1>4, <1>7
<1>11. ~(/\ TaxUpTo(x, brackets, k) <= TaxUpTo(y, brackets, k)
         /\ TaxUpTo(y, brackets, k) <= TaxUpTo(x, brackets, k) + after)
  BY <1>3
<1> HIDE DEF before, growth, after
<1> QED  BY <1>5, <1>7, <1>9, <1>10, <1>11

\* Progressive tax rises with the amount, by no more than the highest rate of the rise.
LEMMA TaxRises ==
    ASSUME NEW max, NEW brackets, Bands(brackets, max), NEW x \in Nat, NEW y \in Nat, x <= y
    PROVE  /\ bracketTax(x, brackets) \in Nat /\ bracketTax(y, brackets) \in Nat
           /\ bracketTax(x, brackets) <= bracketTax(y, brackets)
           /\ bracketTax(y, brackets) <= bracketTax(x, brackets) + max * (y - x)
<1> DEFINE n == Len(brackets)
<1>1. n \in 1..n
  BY BandFacts
<1>2. Held(x, brackets, n) = x /\ Held(y, brackets, n) = y
  BY <1>1 DEF Held
<1>3. /\ bracketTax(x, brackets) = TaxUpTo(x, brackets, n) /\ TaxUpTo(x, brackets, n) \in Nat
      /\ bracketTax(y, brackets) = TaxUpTo(y, brackets, n) /\ TaxUpTo(y, brackets, n) \in Nat
  BY <1>1, TaxStep
<1>4. /\ TaxUpTo(x, brackets, n) <= TaxUpTo(y, brackets, n)
      /\ TaxUpTo(y, brackets, n)
           <= TaxUpTo(x, brackets, n) + max * (Held(y, brackets, n) - Held(x, brackets, n))
  BY <1>1, TaxRisesUpTo
<1> QED  BY <1>2, <1>3, <1>4

\* Nothing is owed on nothing.
LEMMA NothingIsUntaxed ==
    ASSUME NEW max, NEW brackets, Bands(brackets, max)
    PROVE  bracketTax(0, brackets) = 0
<1>0. Len(brackets) \in Nat /\ Len(brackets) >= 1 /\ 0 \in Nat
  BY BandFacts
<1> DEFINE T == {k \in 1..Len(brackets) : TaxUpTo(0, brackets, k) # 0}
<1>1. TaxUpTo(0, brackets, 0) = 0 /\ bracketTax(0, brackets) = TaxUpTo(0, brackets, Len(brackets))
  BY TaxStep, <1>0
<1>2. CASE T = {}
  BY <1>0, <1>1, <1>2
<1>3. CASE T # {}
  <2>1. PICK k \in T : \A j \in T : k <= j
    <3>1. T \subseteq Nat
      BY <1>0
    <3> HIDE DEF T
    <3> QED  BY <1>3, <3>1, LeastNatural
  <2>2. k \in 1..Len(brackets) /\ TaxUpTo(0, brackets, k) # 0
    OBVIOUS
  <2>3. TaxUpTo(0, brackets, k - 1) = 0
    <3>1. k - 1 \in 1..Len(brackets) => k - 1 \notin T
      BY <2>1, <2>2
    <3> QED  BY <1>0, <1>1, <2>2, <3>1
  <2>4. Slice(0, brackets, k) = 0 /\ brackets[k].rate \in Nat
    <3>1. /\ brackets[k].from \in Nat
          /\ k < Len(brackets) => brackets[k + 1].from \in Nat
          /\ brackets[k].rate \in Nat
      BY <1>0, <2>2, BandFacts
    <3> QED  BY <3>1 DEF Slice, Least, Greatest
  <2>5. TaxUpTo(0, brackets, k) = TaxUpTo(0, brackets, k - 1) + Slice(0, brackets, k) * brackets[k].rate
    BY <1>0, <2>2, TaxStep
  <2> QED  BY <2>2, <2>3, <2>4, <2>5
<1> QED  BY <1>2, <1>3

-----------------------------------------------------------------------------
(* The rule packs. *)

\* Brackets stay brackets in any unit of money.
LEMMA BandsScale ==
    ASSUME NEW max, NEW brackets, Bands(brackets, max), NEW ctx, ctx.unit \in Nat \ {0}
    PROVE  Bands(BandsInUnits(ctx, brackets), max)
<1> DEFINE scaled == BandsInUnits(ctx, brackets)
           n == Len(brackets)
           B == [from : Nat, rate : 0..max]
<1>0. /\ max \in Nat /\ n \in Nat /\ n >= 1 /\ DOMAIN brackets = 1..n /\ brackets[1].from = 0
      /\ \A i \in 1..n : brackets[i].from \in Nat
  BY BandFacts
<1>1. \A i \in 1..n : brackets[i] \in B
  <2>1. brackets \in Seq(B)
    BY DEF Bands
  <2> HIDE DEF B
  <2> QED  BY <1>0, <2>1
<1> DEFINE u == ctx.unit
<1>a. \A a, b \in Nat : a <= b => a \div u \in Nat /\ b \div u \in Nat /\ a \div u <= b \div u
  <2>1. u \in Nat \ {0}
    OBVIOUS
  <2> HIDE DEF u
  <2> QED  BY <2>1, QuotientGrows
<1>2. \A i \in 1..n : brackets[i].from \div ctx.unit \in Nat
  <2> TAKE i \in 1..n
  <2>1. brackets[i].from \in Nat /\ brackets[i].from <= brackets[i].from
    BY <1>0
  <2> QED  BY <1>a, <2>1
<1>3. scaled = [i \in 1..n |-> [brackets[i] EXCEPT !.from = brackets[i].from \div ctx.unit]]
  BY <1>0 DEF BandsInUnits, InUnits
<1> HIDE DEF scaled
<1>4. \A i \in 1..n : /\ scaled[i] \in B
                      /\ scaled[i].from = brackets[i].from \div ctx.unit
  BY <1>1, <1>2, <1>3
<1>5. scaled \in Seq(B) /\ Len(scaled) = n
  <2>1. scaled \in [1..n -> B]
    BY <1>3, <1>4
  <2> HIDE DEF B
  <2> QED  BY <1>0, <2>1
<1>6. scaled[1].from = 0
  <2>1. 1 \in 1..n /\ scaled[1].from = 0 \div ctx.unit
    BY <1>0, <1>4
  <2>2. 0 \div ctx.unit = 0
    OBVIOUS
  <2> QED  BY <2>1, <2>2
<1>7. ASSUME NEW i \in 1..(n - 1)
      PROVE  scaled[i].from <= scaled[i + 1].from
  <2>1. i \in 1..n /\ i + 1 \in 1..n /\ brackets[i].from <= brackets[i + 1].from
    BY <1>0, BandFacts
  <2>2. brackets[i].from \in Nat /\ brackets[i + 1].from \in Nat
    BY <1>0, <2>1
  <2>3. brackets[i].from \div u <= brackets[i + 1].from \div u
    BY <1>a, <2>1, <2>2
  <2>4. scaled[i].from = brackets[i].from \div u /\ scaled[i + 1].from = brackets[i + 1].from \div u
    BY <1>4, <2>1
  <2> QED  BY <2>3, <2>4
<1> QED  BY <1>0, <1>5, <1>6, <1>7 DEF Bands, scaled

\* The tables of the three rule packs are such bands.
LEMMA PackBands ==
  /\ Bands(UsBrackets("single"), 37)
  /\ Bands(PayeBrackets, 45)
  /\ Bands(Slabs, 30)
<1>1. Bands(UsBrackets("single"), 37)
  <2> DEFINE b == << Band(0, 10), Band(1100000, 12), Band(4472500, 22), Band(9537500, 24),
          Band(18210000, 32), Band(23125000, 35), Band(57812500, 37) >>
  <2>1. UsBrackets("single") = b
    BY DEF UsBrackets
  <2>2. Bands(b, 37)
    BY DEF Bands, Band
  <2> QED  BY <2>1, <2>2
<1>2. Bands(PayeBrackets, 45)
  BY DEF Bands, Band, PayeBrackets
<1>3. Bands(Slabs, 30)
  BY DEF Bands, Band, Slabs
<1> QED  BY <1>1, <1>2, <1>3

\* A year's tax on z a period: never above the highest rate, on all of it or on what is more.
LEMMA AnnualTax ==
    ASSUME NEW max, NEW b, Bands(b, max), NEW p \in Nat \ {0}, NEW d \in Nat,
           NEW x \in Nat, NEW y \in Nat, x <= y
    PROVE  LET T(z) == bracketTax(Greatest(0, z * p - d), b)
           IN /\ T(x) \in Nat /\ T(y) \in Nat /\ T(x) <= p * (max * x)
              /\ T(y) <= T(x) + p * (max * (y - x))
<1> DEFINE A(z) == Greatest(0, z * p - d)
           T(z) == bracketTax(A(z), b)
<1>0. max \in Nat
  BY BandFacts
<1>1. /\ x * p \in Nat /\ y * p \in Nat /\ x * p <= y * p
      /\ y * p - x * p = p * (y - x) /\ x * p = p * x
  <2>1. p * x <= p * y
    BY ProductMonotone
  <2>2. x * p = p * x /\ y * p = p * y /\ p * (y - x) = p * y - p * x /\ p * x \in Nat /\ p * y \in Nat
    OBVIOUS
  <2> QED  BY <2>1, <2>2
<1>2. /\ A(x) \in Nat /\ A(y) \in Nat /\ A(x) <= A(y)
      /\ A(x) <= p * x /\ A(y) - A(x) <= p * (y - x)
  BY <1>1 DEF Greatest
<1> HIDE DEF A
<1>3. /\ T(x) \in Nat /\ T(y) \in Nat /\ T(y) <= T(x) + max * (A(y) - A(x))
  BY <1>2, TaxRises
<1>4. T(x) <= max * A(x)
  <2>1. bracketTax(0, b) = 0
    BY NothingIsUntaxed
  <2>2. 0 \in Nat /\ 0 <= A(x)
    BY <1>2
  <2>3. T(x) <= bracketTax(0, b) + max * (A(x) - 0)
    BY <1>2, <2>2, TaxRises
  <2>4. A(x) - 0 = A(x) /\ max * A(x) \in Nat
    BY <1>0, <1>2
  <2> QED  BY <1>3, <2>1, <2>3, <2>4
<1> HIDE DEF T
<1>5. max * A(x) <= max * (p * x) /\ max * (A(y) - A(x)) <= max * (p * (y - x))
  <2>1. p * x \in Int /\ p * (y - x) \in Int /\ A(y) - A(x) \in Int
    BY <1>2
  <2> QED  BY <1>0, <1>2, <2>1, ProductMonotone
<1>6. max * (p * x) = p * (max * x) /\ max * (p * (y - x)) = p * (max * (y - x))
  <2>1. \A n \in Int : max * (p * n) = p * (max * n)
    BY <1>0
  <2> QED  BY <2>1
<1>7. max * A(x) \in Int /\ max * (A(y) - A(x)) \in Int /\ p * (max * x) \in Int /\ p * (max * (y - x)) \in Int
  BY <1>0, <1>2
<1>8. T(x) <= p * (max * x) /\ T(y) <= T(x) + p * (max * (y - x))
  BY <1>3, <1>4, <1>5, <1>6, <1>7
<1> QED  BY <1>3, <1>8 DEF T, A

\* A contribution at up to c in q of a base of the two contexts.
Takes(before, after, x, y, c, q) ==
  /\ before \in 0..x /\ after \in Nat /\ q * (after - before) < c * (y - x) + q

\* A share at c in q of x is within x, and rises by no more than that share of the difference, and one.
LEMMA ShareIs ==
    ASSUME NEW p \in Nat \ {0}, NEW q \in Nat \ {0}, NEW c \in Nat, c <= q,
           NEW x \in Nat, NEW y \in Nat, x <= y, NEW n \in Nat, NEW m \in Nat,
           n <= p * (c * x), m <= n + p * (c * (y - x))
    PROVE  Takes(HalfUp(<<n, q * p>>), HalfUp(<<m, q * p>>), x, y, c, q)
<1>1. y - x \in Nat /\ q * p \in Nat \ {0}
  OBVIOUS
<1> QED  BY <1>1, ShareWithin, ShareRises, HalfUpIs DEF Takes

\* What a pack is asked about: the same employee, with more pay the second time.
IsContext(ctx) ==
  /\ ctx.gross \in Nat /\ ctx.taxable \in Nat /\ ctx.taxable <= ctx.gross
  /\ ctx.periods \in Nat \ {0} /\ ctx.unit \in Nat \ {0} /\ ctx.ytd \in Nat /\ ctx.status = "single"

MorePay(ctx, more) ==
  /\ IsContext(ctx) /\ IsContext(more)
  /\ ctx.gross <= more.gross /\ ctx.taxable <= more.taxable
  /\ more.periods = ctx.periods /\ more.unit = ctx.unit /\ more.ytd = ctx.ytd

\* An amount of the law in the unit of the model is a number.
LEMMA UnitsAreNat ==
    ASSUME NEW ctx, ctx.unit \in Nat \ {0}, NEW n \in Nat
    PROVE  InUnits(ctx, n) \in Nat
<1> DEFINE u == ctx.unit
<1>1. u \in Nat \ {0} /\ n <= n
  OBVIOUS
<1> HIDE DEF u
<1>2. n \div u \in Nat
  BY <1>1, QuotientGrows
<1> QED  BY <1>2 DEF u, InUnits

\* Federal income tax takes at most 37 per cent of a rise.
LEMMA FederalTaxTakes ==
    ASSUME NEW ctx, NEW more, MorePay(ctx, more)
    PROVE  Takes(federalIncomeTax(ctx), federalIncomeTax(more), ctx.taxable, more.taxable, 37, 100)
<1> DEFINE b == BandsInUnits(ctx, UsBrackets("single"))
           d == InUnits(ctx, UsStandardDeduction("single"))
           p == ctx.periods
           x == ctx.taxable
           y == more.taxable
           T(z) == bracketTax(Greatest(0, z * p - d), b)
<1>1. /\ p \in Nat \ {0} /\ x \in Nat /\ y \in Nat /\ x <= y /\ ctx.unit \in Nat \ {0}
      /\ ctx.status = "single" /\ more.status = "single" /\ more.periods = p /\ more.unit = ctx.unit
  BY DEF MorePay, IsContext
<1>2. Bands(b, 37)
  BY <1>1, BandsScale, PackBands
<1>3. d \in Nat
  <2>1. UsStandardDeduction("single") \in Nat
    BY DEF UsStandardDeduction
  <2> QED  BY <1>1, <2>1, UnitsAreNat
<1>4. InUnits(more, UsStandardDeduction("single")) = d /\ BandsInUnits(more, UsBrackets("single")) = b
  BY <1>1 DEF InUnits, BandsInUnits
<1>5. /\ federalIncomeTax(ctx) = HalfUp(<<T(x), 100 * p>>)
      /\ federalIncomeTax(more) = HalfUp(<<T(y), 100 * p>>)
  BY <1>1, <1>4 DEF federalIncomeTax, PeriodShare, Rounded, roundToMinor
<1> HIDE DEF b, d, p, x, y
<1>6. T(x) \in Nat /\ T(y) \in Nat /\ T(x) <= p * (37 * x) /\ T(y) <= T(x) + p * (37 * (y - x))
  BY <1>1, <1>2, <1>3, AnnualTax
<1> HIDE DEF T
<1>7. Takes(HalfUp(<<T(x), 100 * p>>), HalfUp(<<T(y), 100 * p>>), x, y, 37, 100)
  <2>1. 100 \in Nat \ {0} /\ 37 \in Nat /\ 37 <= 100
    OBVIOUS
  <2> QED  BY <1>1, <1>6, <2>1, ShareIs
<1> QED  BY <1>5, <1>7 DEF x, y

\* PAYE takes at most 45 per cent of a rise.
LEMMA PayeTakes ==
    ASSUME NEW ctx, NEW more, MorePay(ctx, more)
    PROVE  Takes(paye(ctx), paye(more), ctx.taxable, more.taxable, 45, 100)
<1> DEFINE b == BandsInUnits(ctx, PayeBrackets)
           p == ctx.periods
           x == ctx.taxable
           y == more.taxable
           T(z) == bracketTax(Greatest(0, z * p - 0), b)
<1>1. /\ p \in Nat \ {0} /\ x \in Nat /\ y \in Nat /\ x <= y /\ ctx.unit \in Nat \ {0}
      /\ more.periods = p /\ more.unit = ctx.unit
  BY DEF MorePay, IsContext
<1>2. Bands(b, 45)
  BY <1>1, BandsScale, PackBands
<1>4. BandsInUnits(more, PayeBrackets) = b
  BY <1>1 DEF InUnits, BandsInUnits
<1>a. Greatest(0, x * p - 0) = x * p /\ Greatest(0, y * p - 0) = y * p
  <2>1. x * p \in Nat /\ y * p \in Nat
    BY <1>1
  <2> QED  BY <2>1 DEF Greatest
<1>5. /\ paye(ctx) = HalfUp(<<T(x), 100 * p>>)
      /\ paye(more) = HalfUp(<<T(y), 100 * p>>)
  BY <1>1, <1>4, <1>a DEF paye, PeriodShare, Rounded, roundToMinor
<1> HIDE DEF b, p, x, y
<1>6. T(x) \in Nat /\ T(y) \in Nat /\ T(x) <= p * (45 * x) /\ T(y) <= T(x) + p * (45 * (y - x))
  <2>1. 0 \in Nat
    OBVIOUS
  <2> QED  BY <1>1, <1>2, <2>1, AnnualTax
<1> HIDE DEF T
<1>7. Takes(HalfUp(<<T(x), 100 * p>>), HalfUp(<<T(y), 100 * p>>), x, y, 45, 100)
  <2>1. 100 \in Nat \ {0} /\ 45 \in Nat /\ 45 <= 100
    OBVIOUS
  <2> QED  BY <1>1, <1>6, <2>1, ShareIs
<1> QED  BY <1>5, <1>7 DEF x, y

\* With the cess, 26 times 30 in 2500.
LEMMA SlabTaxTakes ==
    ASSUME NEW ctx, NEW more, MorePay(ctx, more)
    PROVE  Takes(incomeTax(ctx), incomeTax(more), ctx.taxable, more.taxable, 780, 2500)
<1> DEFINE b == BandsInUnits(ctx, Slabs)
           d == InUnits(ctx, InStandardDeduction)
           p == ctx.periods
           x == ctx.taxable
           y == more.taxable
           T(z) == bracketTax(Greatest(0, z * p - d), b)
<1>1. /\ p \in Nat \ {0} /\ x \in Nat /\ y \in Nat /\ x <= y /\ ctx.unit \in Nat \ {0}
      /\ more.periods = p /\ more.unit = ctx.unit
  BY DEF MorePay, IsContext
<1>2. Bands(b, 30)
  BY <1>1, BandsScale, PackBands
<1>3. d \in Nat
  <2>1. InStandardDeduction \in Nat
    BY DEF InStandardDeduction
  <2> QED  BY <1>1, <2>1, UnitsAreNat
<1>4. InUnits(more, InStandardDeduction) = d /\ BandsInUnits(more, Slabs) = b
  BY <1>1 DEF InUnits, BandsInUnits
<1>5. /\ incomeTax(ctx) = HalfUp(<<T(x) * 26, 2500 * p>>)
      /\ incomeTax(more) = HalfUp(<<T(y) * 26, 2500 * p>>)
  BY <1>1, <1>4 DEF incomeTax, Rounded, roundToMinor
<1> HIDE DEF b, d, p, x, y
<1>6. T(x) \in Nat /\ T(y) \in Nat /\ T(x) <= p * (30 * x) /\ T(y) <= T(x) + p * (30 * (y - x))
  BY <1>1, <1>2, <1>3, AnnualTax
<1> HIDE DEF T
<1>7. /\ T(x) * 26 \in Nat /\ T(y) * 26 \in Nat
      /\ T(x) * 26 <= p * (780 * x) /\ T(y) * 26 <= T(x) * 26 + p * (780 * (y - x))
  <2>1. \A n \in Int : p * (30 * n) \in Int /\ p * (780 * n) = 26 * (p * (30 * n))
    BY <1>1
  <2>2. y - x \in Int
    BY <1>1
  <2>3. /\ p * (780 * x) = 26 * (p * (30 * x)) /\ p * (780 * (y - x)) = 26 * (p * (30 * (y - x)))
        /\ p * (30 * x) \in Int /\ p * (30 * (y - x)) \in Int
    BY <1>1, <2>1, <2>2
  <2> QED  BY <1>6, <2>3
<1>8. Takes(HalfUp(<<T(x) * 26, 2500 * p>>), HalfUp(<<T(y) * 26, 2500 * p>>), x, y, 780, 2500)
  <2>1. 2500 \in Nat \ {0} /\ 780 \in Nat /\ 780 <= 2500
    OBVIOUS
  <2> DEFINE n == T(x) * 26
             m == T(y) * 26
  <2>2. n \in Nat /\ m \in Nat /\ n <= p * (780 * x) /\ m <= n + p * (780 * (y - x))
    BY <1>7
  <2> HIDE DEF n, m
  <2>3. Takes(HalfUp(<<n, 2500 * p>>), HalfUp(<<m, 2500 * p>>), x, y, 780, 2500)
    BY <1>1, <2>1, <2>2, ShareIs
  <2> QED  BY <2>3 DEF n, m
<1> QED  BY <1>5, <1>8 DEF x, y

\* A share that is not annualised.
LEMMA PlainShareIs ==
    ASSUME NEW q \in Nat \ {0}, NEW c \in Nat, c <= q,
           NEW x \in Nat, NEW y \in Nat, x <= y, NEW n \in Nat, NEW m \in Nat,
           n <= c * x, m <= n + c * (y - x)
    PROVE  Takes(HalfUp(<<n, q>>), HalfUp(<<m, q>>), x, y, c, q)
<1> DEFINE one == 1
<1>1. one \in Nat \ {0} /\ q * one = q /\ c * x \in Int /\ c * (y - x) \in Int
      /\ one * (c * x) = c * x /\ one * (c * (y - x)) = c * (y - x)
  OBVIOUS
<1> HIDE DEF one
<1>2. n <= one * (c * x) /\ m <= n + one * (c * (y - x))
  BY <1>1
<1>3. Takes(HalfUp(<<n, q * one>>), HalfUp(<<m, q * one>>), x, y, c, q)
  BY <1>1, <1>2, ShareIs
<1> QED  BY <1>1, <1>3

\* Social security takes at most 6.2 per cent of a rise, the wage base included.
LEMMA SocialSecurityTakes ==
    ASSUME NEW ctx, NEW more, MorePay(ctx, more)
    PROVE  Takes(socialSecurity(ctx), socialSecurity(more), ctx.gross, more.gross, 62, 1000)
<1> DEFINE cap == Greatest(0, InUnits(ctx, SsWageBase) - ctx.ytd)
           x == ctx.gross
           y == more.gross
           n == Least(x, cap) * 62
           m == Least(y, cap) * 62
<1>1. /\ x \in Nat /\ y \in Nat /\ x <= y /\ ctx.unit \in Nat \ {0} /\ ctx.ytd \in Nat
      /\ more.unit = ctx.unit /\ more.ytd = ctx.ytd
  BY DEF MorePay, IsContext
<1>2. cap \in Nat
  <2>1. InUnits(ctx, SsWageBase) \in Nat
    <3>1. SsWageBase \in Nat
      BY DEF SsWageBase
    <3> QED  BY <1>1, <3>1, UnitsAreNat
  <2> QED  BY <1>1, <2>1 DEF Greatest
<1>3. /\ socialSecurity(ctx) = HalfUp(<<n, 1000>>)
      /\ socialSecurity(more) = HalfUp(<<m, 1000>>)
  BY <1>1 DEF socialSecurity, InUnits, Rounded, roundToMinor
<1> HIDE DEF cap, x, y
<1>4. n \in Nat /\ m \in Nat /\ n <= 62 * x /\ m <= n + 62 * (y - x)
  BY <1>1, <1>2 DEF Least
<1> HIDE DEF n, m
<1>5. 1000 \in Nat \ {0} /\ 62 \in Nat /\ 62 <= 1000
  OBVIOUS
<1>6. Takes(HalfUp(<<n, 1000>>), HalfUp(<<m, 1000>>), x, y, 62, 1000)
  BY <1>1, <1>4, <1>5, PlainShareIs
<1> QED  BY <1>3, <1>6 DEF x, y

\* Medicare takes 1.45 per cent of a rise.
LEMMA MedicareTakes ==
    ASSUME NEW ctx, NEW more, MorePay(ctx, more)
    PROVE  Takes(medicare(ctx), medicare(more), ctx.gross, more.gross, 145, 10000)
<1> DEFINE x == ctx.gross
           y == more.gross
           n == x * 145
           m == y * 145
<1>1. x \in Nat /\ y \in Nat /\ x <= y
  BY DEF MorePay, IsContext
<1>3. medicare(ctx) = HalfUp(<<n, 10000>>) /\ medicare(more) = HalfUp(<<m, 10000>>)
  BY DEF medicare, Rounded, roundToMinor
<1> HIDE DEF x, y
<1>4. n \in Nat /\ m \in Nat /\ n <= 145 * x /\ m <= n + 145 * (y - x)
  BY <1>1
<1> HIDE DEF n, m
<1>5. 10000 \in Nat \ {0} /\ 145 \in Nat /\ 145 <= 10000
  OBVIOUS
<1>6. Takes(HalfUp(<<n, 10000>>), HalfUp(<<m, 10000>>), x, y, 145, 10000)
  BY <1>1, <1>4, <1>5, PlainShareIs
<1> QED  BY <1>3, <1>6 DEF x, y

\* The pension takes 5 per cent of a rise.
LEMMA PensionTakes ==
    ASSUME NEW ctx, NEW more, MorePay(ctx, more)
    PROVE  Takes(pension(ctx), pension(more), ctx.gross, more.gross, 5, 100)
<1> DEFINE x == ctx.gross
           y == more.gross
           n == x * 5
           m == y * 5
<1>1. x \in Nat /\ y \in Nat /\ x <= y
  BY DEF MorePay, IsContext
<1>3. pension(ctx) = HalfUp(<<n, 100>>) /\ pension(more) = HalfUp(<<m, 100>>)
  BY DEF pension, PerCent, Rounded, roundToMinor
<1> HIDE DEF x, y
<1>4. n \in Nat /\ m \in Nat /\ n <= 5 * x /\ m <= n + 5 * (y - x)
  BY <1>1
<1> HIDE DEF n, m
<1>5. 100 \in Nat \ {0} /\ 5 \in Nat /\ 5 <= 100
  OBVIOUS
<1>6. Takes(HalfUp(<<n, 100>>), HalfUp(<<m, 100>>), x, y, 5, 100)
  BY <1>1, <1>4, <1>5, PlainShareIs
<1> QED  BY <1>3, <1>6 DEF x, y

\* National insurance takes at most 8 per cent of a rise, across both of its thresholds.
LEMMA InsuranceTakes ==
    ASSUME NEW ctx, NEW more, MorePay(ctx, more)
    PROVE  Takes(nationalInsurance(ctx), nationalInsurance(more), ctx.gross, more.gross, 8, 100)
<1> DEFINE l == InUnits(ctx, NiUpperEarningsLimit)
           t == InUnits(ctx, NiPrimaryThreshold)
           p == ctx.periods
           x == ctx.gross
           y == more.gross
           N(z) == Greatest(0, Least(z * p, l) - t) * 8 + Greatest(0, z * p - l) * 2
<1>1. /\ p \in Nat \ {0} /\ x \in Nat /\ y \in Nat /\ x <= y /\ ctx.unit \in Nat \ {0}
      /\ more.periods = p /\ more.unit = ctx.unit
  BY DEF MorePay, IsContext
<1>2. l \in Nat /\ t \in Nat
  <2>1. NiUpperEarningsLimit \in Nat /\ NiPrimaryThreshold \in Nat
    BY DEF NiUpperEarningsLimit, NiPrimaryThreshold
  <2> QED  BY <1>1, <2>1, UnitsAreNat
<1>3. InUnits(more, NiUpperEarningsLimit) = l /\ InUnits(more, NiPrimaryThreshold) = t
  BY <1>1 DEF InUnits
<1>4. /\ nationalInsurance(ctx) = HalfUp(<<N(x), 100 * p>>)
      /\ nationalInsurance(more) = HalfUp(<<N(y), 100 * p>>)
  BY <1>1, <1>3 DEF nationalInsurance, PeriodShare, Rounded, roundToMinor
<1> HIDE DEF l, t, p, x, y
<1>5. /\ x * p \in Nat /\ y * p \in Nat /\ x * p <= y * p
      /\ p * (8 * x) = 8 * (x * p) /\ p * (8 * (y - x)) = 8 * (y * p - x * p)
  <2>1. p * x <= p * y
    BY <1>1, ProductMonotone
  <2>2. x * p = p * x /\ y * p = p * y /\ x * p \in Nat /\ y * p \in Nat
    BY <1>1
  <2>3. p * (8 * x) = 8 * (x * p) /\ p * (8 * (y - x)) = 8 * (y * p - x * p)
    BY <1>1
  <2> QED  BY <2>1, <2>2, <2>3
<1>6. N(x) \in Nat /\ N(y) \in Nat /\ N(x) <= p * (8 * x) /\ N(y) <= N(x) + p * (8 * (y - x))
  <2> DEFINE a == x * p
             b == y * p
             M(z) == Greatest(0, Least(z, l) - t) * 8 + Greatest(0, z - l) * 2
  <2>1. a \in Nat /\ b \in Nat /\ a <= b
    BY <1>5
  <2>2. N(x) = M(a) /\ N(y) = M(b)
    OBVIOUS
  <2> HIDE DEF a, b, N
  <2>3. M(a) \in Nat /\ M(b) \in Nat /\ M(a) <= 8 * a /\ M(b) <= M(a) + 8 * (b - a)
    BY <1>2, <2>1 DEF Greatest, Least
  <2> HIDE DEF M
  <2>4. p * (8 * x) = 8 * a /\ p * (8 * (y - x)) = 8 * (b - a)
    BY <1>5 DEF a, b
  <2> QED  BY <2>2, <2>3, <2>4
<1> HIDE DEF N
<1>7. Takes(HalfUp(<<N(x), 100 * p>>), HalfUp(<<N(y), 100 * p>>), x, y, 8, 100)
  <2>1. 100 \in Nat \ {0} /\ 8 \in Nat /\ 8 <= 100
    OBVIOUS
  <2> QED  BY <1>1, <1>6, <2>1, ShareIs
<1> QED  BY <1>4, <1>7 DEF x, y

\* The provident fund takes at most 12 per cent of a rise, its ceiling included.
LEMMA ProvidentFundTakes ==
    ASSUME NEW ctx, NEW more, MorePay(ctx, more)
    PROVE  Takes(providentFund(ctx), providentFund(more), ctx.gross, more.gross, 12, 100)
<1> DEFINE l == InUnits(ctx, EpfCeiling)
           p == ctx.periods
           x == ctx.gross
           y == more.gross
           N(z) == Least(z * p, l) * 12
<1>1. /\ p \in Nat \ {0} /\ x \in Nat /\ y \in Nat /\ x <= y /\ ctx.unit \in Nat \ {0}
      /\ more.periods = p /\ more.unit = ctx.unit
  BY DEF MorePay, IsContext
<1>2. l \in Nat
  <2>1. EpfCeiling \in Nat
    BY DEF EpfCeiling
  <2> QED  BY <1>1, <2>1, UnitsAreNat
<1>3. InUnits(more, EpfCeiling) = l
  BY <1>1 DEF InUnits
<1>4. /\ providentFund(ctx) = HalfUp(<<N(x), 100 * p>>)
      /\ providentFund(more) = HalfUp(<<N(y), 100 * p>>)
  BY <1>1, <1>3 DEF providentFund, Rounded, roundToMinor
<1> HIDE DEF l, p, x, y
<1>5. /\ x * p \in Nat /\ y * p \in Nat /\ x * p <= y * p
      /\ p * (12 * x) = 12 * (x * p) /\ p * (12 * (y - x)) = 12 * (y * p - x * p)
  <2>1. p * x <= p * y
    BY <1>1, ProductMonotone
  <2>2. x * p = p * x /\ y * p = p * y /\ x * p \in Nat /\ y * p \in Nat
    BY <1>1
  <2>3. p * (12 * x) = 12 * (x * p) /\ p * (12 * (y - x)) = 12 * (y * p - x * p)
    BY <1>1
  <2> QED  BY <2>1, <2>2, <2>3
<1>6. N(x) \in Nat /\ N(y) \in Nat /\ N(x) <= p * (12 * x) /\ N(y) <= N(x) + p * (12 * (y - x))
  <2> DEFINE a == x * p
             b == y * p
  <2>1. a \in Nat /\ b \in Nat /\ a <= b
    BY <1>5
  <2>2. N(x) = Least(a, l) * 12 /\ N(y) = Least(b, l) * 12
    OBVIOUS
  <2> HIDE DEF a, b, N
  <2>3. N(x) \in Nat /\ N(y) \in Nat /\ N(x) <= 12 * a /\ N(y) <= N(x) + 12 * (b - a)
    BY <1>2, <2>1, <2>2 DEF Least
  <2>4. p * (12 * x) = 12 * a /\ p * (12 * (y - x)) = 12 * (b - a)
    BY <1>5 DEF a, b
  <2> QED  BY <2>3, <2>4
<1> HIDE DEF N
<1>7. Takes(HalfUp(<<N(x), 100 * p>>), HalfUp(<<N(y), 100 * p>>), x, y, 12, 100)
  <2>1. 100 \in Nat \ {0} /\ 12 \in Nat /\ 12 <= 100
    OBVIOUS
  <2> QED  BY <1>1, <1>6, <2>1, ShareIs
<1> QED  BY <1>4, <1>7 DEF x, y

Own == {"basic", "unpaid_leave", "reimbursement"}
Contributions ==
  {"us_fit", "us_ss", "us_medicare", "uk_pension", "uk_paye", "uk_ni", "in_tax", "in_epf"}
Types == {"EARNING", "DEDUCTION"}

SlipLines == [code : Own \cup Contributions, type : Types, amount : Nat]

Picked(lines, K) == {i \in DOMAIN lines : lines[i] \in K}
SumOf(lines, K) == Sum(Amounts(lines), Picked(lines, K))

\* A line more on a slip.
LEMMA Appended ==
    ASSUME NEW lines \in Seq(SlipLines), NEW l \in SlipLines
    PROVE  /\ Append(lines, l) \in Seq(SlipLines)
           /\ Len(lines) \in Nat /\ Len(Append(lines, l)) = Len(lines) + 1
           /\ DOMAIN lines = 1..Len(lines) /\ DOMAIN Append(lines, l) = 1..(Len(lines) + 1)
           /\ \A i \in 1..Len(lines) : Append(lines, l)[i] = lines[i] /\ lines[i] \in SlipLines
           /\ Append(lines, l)[Len(lines) + 1] = l
<1> DEFINE S == SlipLines
<1>1. lines \in Seq(S) /\ l \in S
  OBVIOUS
<1> HIDE DEF S
<1>2. /\ Append(lines, l) \in Seq(S)
      /\ Len(lines) \in Nat /\ Len(Append(lines, l)) = Len(lines) + 1
      /\ DOMAIN lines = 1..Len(lines) /\ DOMAIN Append(lines, l) = 1..(Len(lines) + 1)
      /\ \A i \in 1..Len(lines) : Append(lines, l)[i] = lines[i] /\ lines[i] \in S
      /\ Append(lines, l)[Len(lines) + 1] = l
  BY <1>1
<1> QED  BY <1>2 DEF S

\* The lines of one kind are finitely many.
LEMMA PickedAreFinite ==
    ASSUME NEW lines \in Seq(SlipLines), NEW K
    PROVE  /\ IsFiniteSet(Picked(lines, K))
           /\ \A i \in Picked(lines, K) : Amounts(lines)[i] \in Nat /\ Amounts(lines)[i] = lines[i].amount
           /\ SumOf(lines, K) \in Nat
<1>1. Len(lines) \in Nat /\ DOMAIN lines = 1..Len(lines) /\ \A i \in 1..Len(lines) : lines[i] \in SlipLines
  <2> DEFINE S == SlipLines
  <2>1. lines \in Seq(S)
    OBVIOUS
  <2> HIDE DEF S
  <2>2. Len(lines) \in Nat /\ DOMAIN lines = 1..Len(lines) /\ \A i \in 1..Len(lines) : lines[i] \in S
    BY <2>1
  <2> QED  BY <2>2 DEF S
<1>2. IsFiniteSet(Picked(lines, K))
  <2>1. 1 \in Int /\ Len(lines) \in Int
    BY <1>1
  <2>2. IsFiniteSet(1..Len(lines))
    BY <2>1, FS_Interval
  <2> QED  BY <1>1, <2>2, FS_Subset DEF Picked
<1>3. \A i \in Picked(lines, K) : Amounts(lines)[i] \in Nat /\ Amounts(lines)[i] = lines[i].amount
  BY <1>1 DEF Picked, Amounts, SlipLines
<1> QED  BY <1>2, <1>3, SumNat DEF SumOf

\* A line more adds its amount to the sums over the kinds it is of.
LEMMA SumOfAppended ==
    ASSUME NEW lines \in Seq(SlipLines), NEW l \in SlipLines, NEW K
    PROVE  SumOf(Append(lines, l), K) = SumOf(lines, K) + (IF l \in K THEN l.amount ELSE 0)
<1> DEFINE app == Append(lines, l)
           n == Len(lines)
           P == Picked(lines, K)
           f == Amounts(lines)
           g == Amounts(app)
<1>1. /\ n \in Nat /\ DOMAIN lines = 1..n /\ DOMAIN app = 1..(n + 1) /\ app \in Seq(SlipLines)
      /\ \A i \in 1..n : app[i] = lines[i]
      /\ app[n + 1] = l
  BY Appended
<1> HIDE DEF app, n
<1>2. P \subseteq 1..n /\ n + 1 \notin P
  BY <1>1 DEF Picked
<1>3. Picked(app, K) = IF l \in K THEN P \cup {n + 1} ELSE P
  BY <1>1 DEF Picked
<1>4. \A i \in P : f[i] = g[i]
  BY <1>1, <1>2 DEF Amounts
<1>5. g[n + 1] = l.amount
  BY <1>1 DEF Amounts
<1>6. IsFiniteSet(P) /\ Sum(f, P) = Sum(g, P) /\ Sum(f, P) \in Nat
  BY <1>4, PickedAreFinite, SumSame DEF SumOf
<1>7. IsFiniteSet(Picked(app, K)) /\ \A i \in Picked(app, K) : g[i] \in Nat
  BY <1>1, PickedAreFinite
<1> HIDE DEF P, f, g
<1>8. CASE l \in K
  <2>1. Picked(app, K) = P \cup {n + 1} /\ n + 1 \in Picked(app, K) /\ Picked(app, K) \ {n + 1} = P
    BY <1>2, <1>3, <1>8
  <2>2. Sum(g, Picked(app, K)) = g[n + 1] + Sum(g, P)
    BY <1>7, <2>1, SumRemove
  <2>3. l.amount \in Nat
    BY DEF SlipLines
  <2> QED  BY <1>5, <1>6, <1>8, <2>2, <2>3 DEF SumOf, f, g, P, app
<1>9. CASE l \notin K
  BY <1>3, <1>6, <1>9 DEF SumOf, f, g, P, app
<1> QED  BY <1>8, <1>9

-----------------------------------------------------------------------------
(* A slip. *)

Withholding == {l \in SlipLines : l.code \notin Own}
Typed(type) == {l \in SlipLines : l.type = type}

\* A slip's lines: their codes, what they earn, what is docked and what is withheld.
Lists(lines, codes, earned, docked, withheld, top) ==
  /\ lines \in Seq(SlipLines)
  /\ Codes(lines) = codes /\ IsFiniteSet(codes) /\ Cardinality(codes) = Len(lines)
  /\ SumOf(lines, Typed("EARNING")) = earned
  /\ SumOf(lines, Typed("DEDUCTION")) = docked + withheld
  /\ SumOf(lines, Withholding) = withheld
  /\ \A i \in DOMAIN lines : lines[i].code \notin Own => lines[i].amount \in 0..top

\* The slip without lines.
LEMMA NothingListed ==
    ASSUME NEW top
    PROVE  Lists(<<>>, {}, 0, 0, 0, top)
<1> DEFINE S == SlipLines
<1>1. <<>> \in Seq(S) /\ Len(<<>>) = 0 /\ DOMAIN <<>> = {}
  OBVIOUS
<1>2. \A K : Picked(<<>>, K) = {}
  BY <1>1 DEF Picked
<1>3. \A K : SumOf(<<>>, K) = 0
  BY <1>2, SumStep, FS_EmptySet DEF SumOf
<1>4. Codes(<<>>) = {} /\ IsFiniteSet({}) /\ Cardinality({}) = 0
  BY <1>1, FS_EmptySet DEF Codes
<1> QED  BY <1>1, <1>3, <1>4 DEF Lists

\* A line with a code of its own keeps codes apart.
LEMMA CodesAppended ==
    ASSUME NEW lines \in Seq(SlipLines), NEW l \in SlipLines,
           IsFiniteSet(Codes(lines)), Cardinality(Codes(lines)) = Len(lines), l.code \notin Codes(lines)
    PROVE  /\ Codes(Append(lines, l)) = Codes(lines) \cup {l.code}
           /\ IsFiniteSet(Codes(Append(lines, l)))
           /\ Cardinality(Codes(Append(lines, l))) = Len(Append(lines, l))
<1> DEFINE app == Append(lines, l)
<1>1. /\ Len(lines) \in Nat /\ Len(app) = Len(lines) + 1
      /\ DOMAIN lines = 1..Len(lines) /\ DOMAIN app = 1..(Len(lines) + 1)
      /\ \A i \in 1..Len(lines) : app[i] = lines[i]
      /\ app[Len(lines) + 1] = l
  BY Appended
<1> HIDE DEF app
<1>2. Codes(app) = Codes(lines) \cup {l.code}
  <2>1. Codes(app) = {app[i].code : i \in 1..(Len(lines) + 1)}
    BY <1>1 DEF Codes
  <2>2. Codes(lines) = {lines[i].code : i \in 1..Len(lines)}
    BY <1>1 DEF Codes
  <2>3. 1..(Len(lines) + 1) = (1..Len(lines)) \cup {Len(lines) + 1}
    BY <1>1
  <2>4. ASSUME NEW c \in Codes(app) PROVE c \in Codes(lines) \cup {l.code}
    <3>1. PICK i \in 1..(Len(lines) + 1) : c = app[i].code
      BY <2>1, <2>4
    <3>2. i \in 1..Len(lines) \/ i = Len(lines) + 1
      BY <2>3
    <3> QED  BY <1>1, <2>2, <3>1, <3>2
  <2>5. ASSUME NEW i \in 1..Len(lines) PROVE lines[i].code \in Codes(app)
    <3>1. i \in 1..(Len(lines) + 1) /\ app[i] = lines[i]
      BY <1>1, <2>3
    <3> QED  BY <2>1, <3>1
  <2>6. l.code \in Codes(app)
    <3>1. Len(lines) + 1 \in 1..(Len(lines) + 1)
      BY <1>1
    <3> QED  BY <1>1, <2>1, <3>1
  <2> QED  BY <2>2, <2>4, <2>5, <2>6
<1>3. IsFiniteSet(Codes(app)) /\ Cardinality(Codes(app)) = Cardinality(Codes(lines)) + 1
  BY <1>2, FS_AddElement
<1> QED  BY <1>1, <1>2, <1>3 DEF app

\* One more line, of one of the three kinds.
LEMMA OneMoreLine ==
    ASSUME NEW lines, NEW codes, NEW earned \in Nat, NEW docked \in Nat, NEW withheld \in Nat, NEW top,
           Lists(lines, codes, earned, docked, withheld, top),
           NEW code \in Own \cup Contributions, code \notin codes, NEW amount \in Nat
    PROVE  /\ code \in Own =>
                /\ Lists(Append(lines, Line(code, "EARNING", amount)), codes \cup {code},
                         earned + amount, docked, withheld, top)
                /\ Lists(Append(lines, Line(code, "DEDUCTION", amount)), codes \cup {code},
                         earned, docked + amount, withheld, top)
           /\ code \notin Own /\ amount \in 0..top =>
                Lists(Append(lines, Line(code, "DEDUCTION", amount)), codes \cup {code},
                      earned, docked, withheld + amount, top)
<1>1. lines \in Seq(SlipLines) /\ Codes(lines) = codes
  BY DEF Lists
<1>2. ASSUME NEW type \in Types, code \in Own \/ (type = "DEDUCTION" /\ amount \in 0..top)
      PROVE  LET l == Line(code, type, amount)
             IN /\ Append(lines, l) \in Seq(SlipLines)
                /\ Codes(Append(lines, l)) = codes \cup {code}
                /\ IsFiniteSet(codes \cup {code}) /\ Cardinality(codes \cup {code}) = Len(Append(lines, l))
                /\ SumOf(Append(lines, l), Typed("EARNING")) = earned + (IF type = "EARNING" THEN amount ELSE 0)
                /\ SumOf(Append(lines, l), Typed("DEDUCTION"))
                     = docked + withheld + (IF type = "DEDUCTION" THEN amount ELSE 0)
                /\ SumOf(Append(lines, l), Withholding) = withheld + (IF code \in Own THEN 0 ELSE amount)
                /\ \A i \in DOMAIN Append(lines, l) :
                     Append(lines, l)[i].code \notin Own => Append(lines, l)[i].amount \in 0..top
  <2> DEFINE l == Line(code, type, amount)
             app == Append(lines, l)
  <2>1. /\ l \in SlipLines /\ l.code = code /\ l.type = type /\ l.amount = amount
    <3>1. type \in Types
      BY <1>2 DEF Types
    <3>2. l = [code |-> code, type |-> type, amount |-> amount]
      BY DEF Line
    <3> HIDE DEF l
    <3> QED  BY <3>1, <3>2 DEF SlipLines
  <2> HIDE DEF l
  <2>2. app \in Seq(SlipLines)
    BY <1>1, <2>1, Appended
  <2>3. /\ Codes(app) = codes \cup {code}
        /\ IsFiniteSet(codes \cup {code}) /\ Cardinality(codes \cup {code}) = Len(app)
    <3>1. IsFiniteSet(Codes(lines)) /\ Cardinality(Codes(lines)) = Len(lines) /\ l.code \notin Codes(lines)
      BY <1>1, <2>1 DEF Lists
    <3>2. /\ Codes(app) = Codes(lines) \cup {l.code} /\ IsFiniteSet(Codes(app))
          /\ Cardinality(Codes(app)) = Len(app)
      BY <1>1, <2>1, <3>1, CodesAppended
    <3> QED  BY <1>1, <2>1, <3>2
  <2>4. /\ SumOf(app, Typed("EARNING")) = earned + (IF l \in Typed("EARNING") THEN amount ELSE 0)
        /\ SumOf(app, Typed("DEDUCTION")) = docked + withheld + (IF l \in Typed("DEDUCTION") THEN amount ELSE 0)
        /\ SumOf(app, Withholding) = withheld + (IF l \in Withholding THEN amount ELSE 0)
    <3>1. \A K : SumOf(app, K) = SumOf(lines, K) + (IF l \in K THEN l.amount ELSE 0)
      BY <1>1, <2>1, SumOfAppended
    <3>2. /\ SumOf(lines, Typed("EARNING")) = earned /\ SumOf(lines, Typed("DEDUCTION")) = docked + withheld
          /\ SumOf(lines, Withholding) = withheld
      BY DEF Lists
    <3> QED  BY <2>1, <3>1, <3>2
  <2>5. /\ l \in Typed("EARNING") <=> type = "EARNING"
        /\ l \in Typed("DEDUCTION") <=> type = "DEDUCTION"
        /\ l \in Withholding <=> code \notin Own
    BY <2>1 DEF Typed, Withholding
  <2>6. ASSUME NEW i \in DOMAIN app, app[i].code \notin Own
        PROVE  app[i].amount \in 0..top
    <3>1. /\ DOMAIN lines = 1..Len(lines) /\ DOMAIN app = 1..(Len(lines) + 1) /\ Len(lines) \in Nat
          /\ \A j \in 1..Len(lines) : app[j] = lines[j]
          /\ app[Len(lines) + 1] = l
      BY <1>1, <2>1, Appended
    <3>2. CASE i \in 1..Len(lines)
      BY <2>6, <3>1, <3>2 DEF Lists
    <3>3. CASE i = Len(lines) + 1
      BY <1>2, <2>1, <2>6, <3>1, <3>3
    <3>4. i \in 1..Len(lines) \/ i = Len(lines) + 1
      BY <3>1
    <3> QED  BY <3>2, <3>3, <3>4
  <2>7. /\ SumOf(app, Typed("EARNING")) = earned + (IF type = "EARNING" THEN amount ELSE 0)
        /\ SumOf(app, Typed("DEDUCTION")) = docked + withheld + (IF type = "DEDUCTION" THEN amount ELSE 0)
        /\ SumOf(app, Withholding) = withheld + (IF code \in Own THEN 0 ELSE amount)
    <3>1. SumOf(app, Typed("EARNING")) = earned + (IF type = "EARNING" THEN amount ELSE 0)
      BY <2>4, <2>5
    <3>2. SumOf(app, Typed("DEDUCTION")) = docked + withheld + (IF type = "DEDUCTION" THEN amount ELSE 0)
      BY <2>4, <2>5
    <3>3. SumOf(app, Withholding) = withheld + (IF code \in Own THEN 0 ELSE amount)
      <4>1. CASE code \in Own
        BY <2>4, <2>5, <4>1
      <4>2. CASE code \notin Own
        BY <2>4, <2>5, <4>2
      <4> QED  BY <4>1, <4>2
    <3> QED  BY <3>1, <3>2, <3>3
  <2> QED  BY <2>2, <2>3, <2>6, <2>7 DEF l
<1>3. "EARNING" \in Types /\ "DEDUCTION" \in Types
  BY DEF Types
<1>4. ASSUME code \in Own
      PROVE  Lists(Append(lines, Line(code, "EARNING", amount)), codes \cup {code},
                   earned + amount, docked, withheld, top)
  <2>1. /\ docked + withheld + 0 = docked + withheld /\ withheld + 0 = withheld
        /\ "EARNING" # "DEDUCTION"
    OBVIOUS
  <2> QED  BY <1>2, <1>3, <1>4, <2>1 DEF Lists
<1>5. ASSUME code \in Own
      PROVE  Lists(Append(lines, Line(code, "DEDUCTION", amount)), codes \cup {code},
                   earned, docked + amount, withheld, top)
  <2>1. /\ docked + withheld + amount = (docked + amount) + withheld /\ withheld + 0 = withheld
        /\ earned + 0 = earned /\ "EARNING" # "DEDUCTION"
    OBVIOUS
  <2> QED  BY <1>2, <1>3, <1>5, <2>1 DEF Lists
<1>6. ASSUME code \notin Own, amount \in 0..top
      PROVE  Lists(Append(lines, Line(code, "DEDUCTION", amount)), codes \cup {code},
                   earned, docked, withheld + amount, top)
  <2>1. /\ docked + withheld + amount = docked + (withheld + amount)
        /\ earned + 0 = earned /\ "EARNING" # "DEDUCTION"
    OBVIOUS
  <2> QED  BY <1>2, <1>3, <1>6, <2>1 DEF Lists
<1> QED  BY <1>4, <1>5, <1>6

Blank == [failed |-> FALSE, lines |-> <<>>]

\* The slips after so many elements.
Evaluates(variables, elements, slips) ==
  slips = [i \in 0..Len(elements) |->
             IF i = 0 THEN Blank ELSE EvaluateNext(variables, slips[i - 1], elements[i])]

\* The result of calculate is the end of a sequence of slips that evaluates the elements.
LEMMA CalculateIsChosen ==
    ASSUME NEW variables, NEW elements, Compiles(variables, elements)
    PROVE  calculate(variables, elements)
             = (CHOOSE slips : Evaluates(variables, elements, slips))[Len(elements)]
BY DEF calculate, Evaluates, Blank

\* There is such a sequence to choose.
LEMMA ChosenEvaluates ==
    ASSUME NEW variables, NEW elements, \E slips : Evaluates(variables, elements, slips)
    PROVE  Evaluates(variables, elements, CHOOSE slips : Evaluates(variables, elements, slips))
BY Zenon

\* Any such sequence has the same end.
LEMMA CalculateIs ==
    ASSUME NEW variables, NEW elements, Len(elements) \in Nat, Compiles(variables, elements),
           NEW slips, Evaluates(variables, elements, slips)
    PROVE  calculate(variables, elements) = slips[Len(elements)]
<1> DEFINE n == Len(elements)
           chosen == CHOOSE s : Evaluates(variables, elements, s)
           T == {i \in 0..n : chosen[i] # slips[i]}
<1>1. Evaluates(variables, elements, chosen)
  BY ChosenEvaluates
<1>2. calculate(variables, elements) = chosen[n]
  BY CalculateIsChosen
<1> HIDE DEF chosen
<1>3. \A s : Evaluates(variables, elements, s) =>
        /\ s[0] = Blank
        /\ \A i \in 1..n : s[i] = EvaluateNext(variables, s[i - 1], elements[i])
  <2> SUFFICES ASSUME NEW s, Evaluates(variables, elements, s)
               PROVE  /\ s[0] = Blank
                      /\ \A i \in 1..n : s[i] = EvaluateNext(variables, s[i - 1], elements[i])
    OBVIOUS
  <2>1. s = [i \in 0..n |-> IF i = 0 THEN Blank ELSE EvaluateNext(variables, s[i - 1], elements[i])]
    BY DEF Evaluates
  <2>2. 0 \in 0..n
    OBVIOUS
  <2>3. \A i \in 1..n : i \in 0..n /\ i # 0
    OBVIOUS
  <2> QED  BY ONLY <2>1, <2>2, <2>3
<1>4. T = {}
  <2> SUFFICES ASSUME T # {} PROVE FALSE
    OBVIOUS
  <2>1. PICK i \in T : \A j \in T : i <= j
    <3>1. T \subseteq Nat
      OBVIOUS
    <3> HIDE DEF T
    <3> QED  BY <3>1, LeastNatural
  <2>2. i \in 0..n /\ chosen[i] # slips[i]
    OBVIOUS
  <2>3. i # 0
    BY <1>1, <1>3, <2>2
  <2>4. i \in 1..n /\ i - 1 \in 0..n /\ ~(i <= i - 1)
    BY <2>2, <2>3
  <2>5. chosen[i - 1] = slips[i - 1]
    BY <2>1, <2>4
  <2> QED  BY <1>1, <1>3, <2>2, <2>4, <2>5
<1>5. n \in 0..n
  OBVIOUS
<1> QED  BY <1>2, <1>4, <1>5

-----------------------------------------------------------------------------
(* Elements that read one variable. *)

\* An element reads one name, which the variables give a whole amount.
Reads(variables, el) ==
  \E name \in DOMAIN variables : \E amount \in Nat :
    /\ el.formula = <<Ident(name)>> /\ variables[name] = Whole(amount)
    /\ el.rounding = "HALF_UP"

Name(el) == el.formula[1][2]
LineOf(variables, el) == Line(el.code, el.type, variables[Name(el)][1])
LinesOf(variables, elements) == [i \in DOMAIN elements |-> LineOf(variables, elements[i])]

\* An element that reads one variable.
LEMMA NamesRead ==
    ASSUME NEW variables, NEW el, Reads(variables, el)
    PROVE  /\ Name(el) \in DOMAIN variables /\ el.formula = <<Ident(Name(el))>>
           /\ variables[Name(el)][1] \in Nat
           /\ variables[Name(el)] = Whole(variables[Name(el)][1])
<1>1. PICK name \in DOMAIN variables, amount \in Nat :
        el.formula = <<Ident(name)>> /\ variables[name] = Whole(amount)
  BY DEF Reads
<1>2. Name(el) = name
  BY <1>1 DEF Name, Ident
<1>3. variables[name][1] = amount
  BY <1>1 DEF Whole
<1> QED  BY <1>1, <1>2, <1>3

\* The next such element reads its variable, whatever is on the slip already.
LEMMA NextIsRead ==
    ASSUME NamesAreRead, NEW variables, NEW el, Reads(variables, el), NEW lines,
           DOMAIN variables \cap (RESERVED_NAMES \cup Codes(lines)) = {}
    PROVE  EvaluateNext(variables, [failed |-> FALSE, lines |-> lines], el)
             = [failed |-> FALSE, lines |-> Append(lines, LineOf(variables, el))]
<1> DEFINE name == Name(el)
           amount == variables[name][1]
           context == Visible(variables, lines)
<1>1. /\ name \in DOMAIN variables /\ el.formula = <<Ident(name)>>
      /\ amount \in Nat /\ variables[name] = Whole(amount)
  BY NamesRead
<1>2. el.rounding = "HALF_UP"
  BY DEF Reads
<1> HIDE DEF name, amount
<1>3. name \in DOMAIN context /\ context[name] = Whole(amount)
  <2>1. name \notin RESERVED_NAMES /\ name \notin Codes(lines)
    BY <1>1
  <2> QED  BY <1>1, <2>1 DEF Visible
<1> HIDE DEF context
<1>4. Evaluated(Compiled(el.formula), context) = Whole(amount)
  BY <1>1, <1>3 DEF NamesAreRead
<1>5. Defined(Whole(amount))
  BY DEF Defined, Whole
<1>6. roundToMinor(Whole(amount), "HALF_UP") = amount
  BY <1>1, WholeRounds DEF Rounded
<1> DEFINE slip == [failed |-> FALSE, lines |-> lines]
<1>7. slip.failed = FALSE /\ slip.lines = lines
  OBVIOUS
<1>8. EvaluateNext(variables, slip, el)
        = [slip EXCEPT !.lines = Append(@, Line(el.code, el.type, amount))]
  <2> HIDE DEF slip
  <2> QED  BY <1>2, <1>4, <1>5, <1>6, <1>7 DEF EvaluateNext, context
<1> QED  BY <1>8 DEF LineOf, amount, name

\* The lines so far and the next one are the lines so far, one further.
LEMMA PrefixGrows ==
    ASSUME NEW variables, NEW elements, NEW n \in Nat, DOMAIN elements = 1..n, NEW i \in 1..n
    PROVE  Append([j \in 1..(i - 1) |-> LineOf(variables, elements[j])], LineOf(variables, elements[i]))
             = [j \in 1..i |-> LineOf(variables, elements[j])]
<1> DEFINE L == [j \in 1..(i - 1) |-> LineOf(variables, elements[j])]
           M == [j \in 1..i |-> LineOf(variables, elements[j])]
           l == LineOf(variables, elements[i])
           S == {LineOf(variables, elements[j]) : j \in 1..n}
<1>1. i - 1 \in Nat /\ i \in Nat /\ (i - 1) + 1 = i /\ \A j \in 1..(i - 1) : j \in 1..i /\ j \in 1..n
  OBVIOUS
<1>2. /\ L \in [1..(i - 1) -> S] /\ M \in [1..i -> S] /\ l \in S
      /\ \A j \in 1..(i - 1) : L[j] = M[j]
      /\ M[i] = l
  BY <1>1
<1> HIDE DEF L, M, l, S
<1>3. /\ L \in Seq(S) /\ Len(L) = i - 1 /\ M \in Seq(S) /\ Len(M) = i
  BY <1>1, <1>2
<1>4. Append(L, l) \in Seq(S) /\ Len(Append(L, l)) = i
  BY <1>1, <1>2, <1>3
<1>5. \A j \in 1..i : Append(L, l)[j] = M[j]
  <2> TAKE j \in 1..i
  <2>1. j \in 1..(i - 1) \/ j = i
    OBVIOUS
  <2>2. CASE j \in 1..(i - 1)
    <3>1. Append(L, l)[j] = L[j]
      BY <1>2, <1>3, <2>2
    <3> QED  BY <1>2, <2>2, <3>1
  <2>3. CASE j = i
    <3>1. Append(L, l)[(i - 1) + 1] = l
      BY <1>2, <1>3
    <3> QED  BY <1>1, <1>2, <2>3, <3>1
  <2> QED  BY <2>1, <2>2, <2>3
<1>6. Append(L, l) = M
  BY <1>3, <1>4, <1>5, SeqEqual
<1> QED  BY <1>6 DEF L, M, l

\* Elements that read variables are evaluated to those variables, line by line.
LEMMA ElementsAreRead ==
    ASSUME NamesAreRead, NEW variables, NEW elements, NEW n \in Nat,
           DOMAIN elements = 1..n, Len(elements) = n, Compiles(variables, elements),
           \A i \in 1..n : Reads(variables, elements[i])
    PROVE  calculate(variables, elements) = [failed |-> FALSE, lines |-> LinesOf(variables, elements)]
<1> DEFINE P(i) == [j \in 1..i |-> LineOf(variables, elements[j])]
           slips == [i \in 0..n |-> [failed |-> FALSE, lines |-> P(i)]]
<1>1. P(0) = <<>>
  <2>1. 1..0 = {}
    OBVIOUS
  <2> QED  BY <2>1
<1>2. ASSUME NEW i \in 1..n
      PROVE  EvaluateNext(variables, slips[i - 1], elements[i]) = slips[i]
  <2>1. i \in 0..n /\ i - 1 \in 0..n
    OBVIOUS
  <2>2. slips[i - 1] = [failed |-> FALSE, lines |-> P(i - 1)] /\ slips[i] = [failed |-> FALSE, lines |-> P(i)]
    BY <2>1
  <2>3. Codes(P(i - 1)) \subseteq Codes(elements)
    <3>1. \A j \in 1..(i - 1) : j \in 1..n /\ P(i - 1)[j].code = elements[j].code
      BY DEF LineOf, Line
    <3>2. DOMAIN P(i - 1) = 1..(i - 1)
      OBVIOUS
    <3> HIDE DEF P
    <3> QED  BY <3>1, <3>2 DEF Codes
  <2>4. DOMAIN variables \cap (RESERVED_NAMES \cup Codes(P(i - 1))) = {}
    BY <2>3 DEF Compiles
  <2>5. Append(P(i - 1), LineOf(variables, elements[i])) = P(i)
    BY PrefixGrows
  <2> HIDE DEF P, slips
  <2>6. EvaluateNext(variables, [failed |-> FALSE, lines |-> P(i - 1)], elements[i])
          = [failed |-> FALSE, lines |-> Append(P(i - 1), LineOf(variables, elements[i]))]
    BY <2>4, NextIsRead
  <2> QED  BY <2>2, <2>5, <2>6
<1>3. Evaluates(variables, elements, slips)
  <2> DEFINE other == [i \in 0..n |->
               IF i = 0 THEN Blank ELSE EvaluateNext(variables, slips[i - 1], elements[i])]
  <2>1. slips[0] = Blank
    BY <1>1 DEF Blank
  <2>2. \A i \in 0..n : slips[i] = other[i]
    <3> TAKE i \in 0..n
    <3>1. CASE i = 0
      BY <2>1, <3>1
    <3>2. CASE i # 0
      <4>1. i \in 1..n
        BY <3>2
      <4> HIDE DEF slips
      <4> QED  BY <1>2, <3>2, <4>1
    <3> QED  BY <3>1, <3>2
  <2>3. slips = other
    <3>1. slips = [i \in 0..n |-> slips[i]] /\ other = [i \in 0..n |-> other[i]]
      OBVIOUS
    <3> HIDE DEF slips, other
    <3> QED  BY <2>2, <3>1
  <2> HIDE DEF slips
  <2> QED  BY <2>3 DEF Evaluates
<1>4. P(n) = LinesOf(variables, elements)
  BY DEF LinesOf
<1>5. slips[n] = [failed |-> FALSE, lines |-> P(n)]
  OBVIOUS
<1> HIDE DEF slips, P
<1>6. calculate(variables, elements) = slips[n]
  BY <1>3, CalculateIs
<1> QED  BY <1>4, <1>5, <1>6

\* Adding a few at the end is adding them one by one.
LEMMA OneAfter ==
    ASSUME NEW S, NEW s \in Seq(S), NEW x \in S
    PROVE  s \o <<x>> = Append(s, x)
BY AppendIsConcat

\* One more, after others were added.
LEMMA OneLater ==
    ASSUME NEW S, NEW s \in Seq(S), NEW t \in Seq(S), NEW a \in S
    PROVE  s \o Append(t, a) = Append(s \o t, a)
<1> DEFINE w == <<a>>
<1>1. w \in Seq(S) /\ s \o t \in Seq(S)
  BY ConcatProperties
<1>2. t \o w = Append(t, a) /\ (s \o t) \o w = Append(s \o t, a)
  BY <1>1, OneAfter
<1> HIDE DEF w
<1>3. (s \o t) \o w = s \o (t \o w)
  BY <1>1, ConcatAssociative
<1> QED  BY <1>2, <1>3

\* Two,
LEMMA TwoAfter ==
    ASSUME NEW S, NEW s \in Seq(S), NEW x \in S, NEW y \in S
    PROVE  s \o <<x, y>> = Append(Append(s, x), y)
<1> DEFINE t == Append(<<x>>, y)
           u == <<x, y>>
           v == <<x>>
<1>1. t \in Seq(S) /\ Len(t) = 2 /\ t[1] = x /\ t[2] = y
  OBVIOUS
<1>2. u \in Seq(S) /\ Len(u) = 2 /\ u[1] = x /\ u[2] = y
  OBVIOUS
<1>3. v \in Seq(S) /\ t = Append(v, y) /\ s \o v = Append(s, x)
  BY OneAfter
<1> HIDE DEF t, u, v
<1>4. \A i \in 1..2 : t[i] = u[i]
  BY <1>1, <1>2
<1>5. t = u
  BY <1>1, <1>2, <1>4, SeqEqual
<1>6. s \o Append(v, y) = Append(s \o v, y)
  BY <1>3, OneLater
<1>7. s \o u = Append(Append(s, x), y)
  BY <1>3, <1>5, <1>6
<1> QED  BY <1>7 DEF u

\* and three.
LEMMA ThreeAfter ==
    ASSUME NEW S, NEW s \in Seq(S), NEW x \in S, NEW y \in S, NEW z \in S
    PROVE  s \o <<x, y, z>> = Append(Append(Append(s, x), y), z)
<1> DEFINE t == Append(<<x, y>>, z)
           u == <<x, y, z>>
           v == <<x, y>>
<1>1. t \in Seq(S) /\ Len(t) = 3 /\ t[1] = x /\ t[2] = y /\ t[3] = z
  OBVIOUS
<1>2. u \in Seq(S) /\ Len(u) = 3 /\ u[1] = x /\ u[2] = y /\ u[3] = z
  OBVIOUS
<1>3. v \in Seq(S) /\ t = Append(v, z) /\ s \o v = Append(Append(s, x), y)
  BY TwoAfter
<1> HIDE DEF t, u, v
<1>4. \A i \in 1..3 : t[i] = u[i]
  BY <1>1, <1>2
<1>5. t = u
  BY <1>1, <1>2, <1>4, SeqEqual
<1>6. s \o Append(v, z) = Append(s \o v, z)
  BY <1>3, OneLater
<1>7. s \o u = Append(Append(Append(s, x), y), z)
  BY <1>3, <1>5, <1>6
<1> QED  BY <1>7 DEF u

\* The lines of one more element.
LEMMA LinesOfAppended ==
    ASSUME NEW variables, NEW E, NEW elements \in Seq(E), NEW el \in E
    PROVE  LinesOf(variables, Append(elements, el))
             = Append(LinesOf(variables, elements), LineOf(variables, el))
<1> DEFINE n == Len(elements)
           more == Append(elements, el)
           L == LinesOf(variables, elements)
           M == LinesOf(variables, more)
           l == LineOf(variables, el)
           S == {LineOf(variables, e) : e \in E}
<1>1. /\ n \in Nat /\ DOMAIN elements = 1..n /\ DOMAIN more = 1..(n + 1)
      /\ \A i \in 1..n : more[i] = elements[i] /\ elements[i] \in E
      /\ more[n + 1] = el
  OBVIOUS
<1> HIDE DEF more, n
<1>a. \A i \in 1..(n + 1) : i \in 1..n \/ i = n + 1
  BY <1>1
<1>b. \A i \in 1..n : i \in 1..(n + 1)
  BY <1>1
<1>c. n + 1 \in 1..(n + 1)
  BY <1>1
<1>2. /\ L \in [1..n -> S] /\ \A i \in 1..n : L[i] = LineOf(variables, elements[i])
  BY <1>1 DEF LinesOf
<1>3. /\ M \in [1..(n + 1) -> S]
      /\ \A i \in 1..(n + 1) : M[i] = LineOf(variables, more[i])
  BY <1>1, <1>a DEF LinesOf
<1>4. l \in S
  OBVIOUS
<1>d. M[n + 1] = l /\ \A i \in 1..n : M[i] = L[i]
  BY <1>1, <1>2, <1>3, <1>b, <1>c
<1> HIDE DEF L, M, l, S
<1>5. L \in Seq(S) /\ Len(L) = n /\ M \in Seq(S) /\ Len(M) = n + 1
  BY <1>1, <1>2, <1>3
<1>6. Append(L, l) \in Seq(S) /\ Len(Append(L, l)) = n + 1
  BY <1>1, <1>4, <1>5
<1>7. \A i \in 1..(n + 1) : Append(L, l)[i] = M[i]
  <2> TAKE i \in 1..(n + 1)
  <2>1. CASE i \in 1..n
    <3>1. Append(L, l)[i] = L[i]
      BY <1>4, <1>5, <2>1
    <3> QED  BY <1>d, <2>1, <3>1
  <2>2. CASE i = n + 1
    <3>1. Append(L, l)[n + 1] = l
      BY <1>4, <1>5
    <3> QED  BY <1>d, <2>2, <3>1
  <2> QED  BY <1>a, <2>1, <2>2
<1>8. Append(L, l) = M
  BY <1>5, <1>6, <1>7, SeqEqual
<1> QED  BY <1>8 DEF L, M, l, more

-----------------------------------------------------------------------------
(* The elements of a member. *)

Planned == {BasicElement, UnpaidLeaveElement, ReimbursementElement}

\* What the calculation passes for a member.
VariablesOf(frequency, member) ==
  [baseSalary |-> Whole(PeriodGross(member, frequency)),
   unpaidLeave |-> Whole(UnpaidLeave(member, frequency)),
   reimbursementAmount |-> Whole(member.claims)]

\* The amounts a member's elements read are numbers.
LEMMA AmountsAreNat ==
    ASSUME NEW frequency \in DOMAIN periodsPerYear, NEW member \in Members
    PROVE  /\ periodsPerYear[frequency] \in Nat \ {0}
           /\ PeriodGross(member, frequency) \in Nat /\ UnpaidLeave(member, frequency) \in Nat
           /\ member.claims \in Nat /\ member.unpaidDays \in Nat
<1>1. /\ member.amount \in Nat /\ member.unpaidDays \in Nat /\ member.claims \in Nat
      /\ member.frequency \in DOMAIN periodsPerYear
  BY DEF Members
<1>2. periodsPerYear[frequency] \in Nat \ {0} /\ periodsPerYear[member.frequency] \in Nat \ {0}
  BY <1>1 DEF periodsPerYear
<1>3. PeriodGross(member, frequency) \in Nat
  <2>1. member.amount * periodsPerYear[member.frequency] \in Nat
    BY <1>1, <1>2
  <2> QED  BY <1>2, <2>1, HalfUpIs, RoundedIs DEF PeriodGross
<1>4. UnpaidLeave(member, frequency) \in Nat
  <2>1. PeriodGross(member, frequency) * member.unpaidDays * periodsPerYear[frequency] \in Nat
    <3>1. PeriodGross(member, frequency) * member.unpaidDays \in Nat
      BY <1>1, <1>3
    <3> QED  BY <1>2, <3>1
  <2>2. 260 \in Nat \ {0}
    OBVIOUS
  <2> QED  BY <2>1, <2>2, HalfUpIs, RoundedIs DEF UnpaidLeave, WORKING_DAYS_PER_YEAR
<1> QED  BY <1>1, <1>2, <1>3, <1>4

\* The elements of a member read the variables of a member.
LEMMA PlannedAreRead ==
    ASSUME NEW frequency \in DOMAIN periodsPerYear, NEW member \in Members
    PROVE  LET v == VariablesOf(frequency, member)
           IN /\ \A el \in Planned : Reads(v, el)
              /\ LineOf(v, BasicElement) = Line("basic", "EARNING", PeriodGross(member, frequency))
              /\ LineOf(v, UnpaidLeaveElement)
                   = Line("unpaid_leave", "DEDUCTION", UnpaidLeave(member, frequency))
              /\ LineOf(v, ReimbursementElement) = Line("reimbursement", "EARNING", member.claims)
              /\ DOMAIN v \cap (RESERVED_NAMES \cup Own) = {}
<1> DEFINE v == VariablesOf(frequency, member)
           b == PeriodGross(member, frequency)
           u == UnpaidLeave(member, frequency)
           c == member.claims
<1>1. b \in Nat /\ u \in Nat /\ c \in Nat
  BY AmountsAreNat
<1>2. v = [baseSalary |-> Whole(b), unpaidLeave |-> Whole(u), reimbursementAmount |-> Whole(c)]
  BY DEF VariablesOf
<1> HIDE DEF v, b, u, c
<1>3. /\ DOMAIN v = {"baseSalary", "unpaidLeave", "reimbursementAmount"}
      /\ v["baseSalary"] = Whole(b) /\ v["unpaidLeave"] = Whole(u) /\ v["reimbursementAmount"] = Whole(c)
  BY <1>2
<1>4. Reads(v, BasicElement) /\ Reads(v, UnpaidLeaveElement) /\ Reads(v, ReimbursementElement)
  <2>1. Reads(v, BasicElement)
    BY <1>1, <1>3 DEF Reads, BasicElement, Element
  <2>2. Reads(v, UnpaidLeaveElement)
    BY <1>1, <1>3 DEF Reads, UnpaidLeaveElement, Element
  <2>3. Reads(v, ReimbursementElement)
    BY <1>1, <1>3 DEF Reads, ReimbursementElement, Element
  <2> QED  BY <2>1, <2>2, <2>3
<1>5. LineOf(v, BasicElement) = Line("basic", "EARNING", b)
  BY <1>3 DEF LineOf, Name, BasicElement, Element, Ident, Whole
<1>6. LineOf(v, UnpaidLeaveElement) = Line("unpaid_leave", "DEDUCTION", u)
  BY <1>3 DEF LineOf, Name, UnpaidLeaveElement, Element, Ident, Whole
<1>7. LineOf(v, ReimbursementElement) = Line("reimbursement", "EARNING", c)
  BY <1>3 DEF LineOf, Name, ReimbursementElement, Element, Ident, Whole
<1>8. DOMAIN v \cap (RESERVED_NAMES \cup Own) = {}
  BY <1>3 DEF RESERVED_NAMES, Own
<1> QED  BY <1>4, <1>5, <1>6, <1>7, <1>8 DEF v, b, u, c, Planned

ElementsOf(member) ==
  <<BasicElement>> \o If(member.unpaidDays > 0, <<UnpaidLeaveElement>>)
                   \o If(member.claims > 0, <<ReimbursementElement>>)

\* The unpaid days' dock, when there are any.
Docked(member, frequency) == IF member.unpaidDays = 0 THEN 0 ELSE UnpaidLeave(member, frequency)

\* The lines of a member's elements: what they earn and what they dock.
LEMMA ElementsListed ==
    ASSUME NEW frequency \in DOMAIN periodsPerYear, NEW member \in Members, NEW top
    PROVE  /\ ElementsOf(member) \in Seq(Planned)
           /\ \E codes \in SUBSET Own :
                Lists(LinesOf(VariablesOf(frequency, member), ElementsOf(member)), codes,
                      PeriodGross(member, frequency) + member.claims, Docked(member, frequency), 0, top)
<1> DEFINE v == VariablesOf(frequency, member)
           b == PeriodGross(member, frequency)
           u == UnpaidLeave(member, frequency)
           c == member.claims
           d == Docked(member, frequency)
           e1 == <<BasicElement>>
           e2 == IF member.unpaidDays > 0 THEN Append(e1, UnpaidLeaveElement) ELSE e1
           e3 == IF c > 0 THEN Append(e2, ReimbursementElement) ELSE e2
           c2 == IF member.unpaidDays > 0 THEN {"basic", "unpaid_leave"} ELSE {"basic"}
           c3 == IF c > 0 THEN c2 \cup {"reimbursement"} ELSE c2
           Listing(e, codes, earned, docked) ==
             Lists(LinesOf(v, e), codes, earned, docked, 0, top)
<1>1. b \in Nat /\ u \in Nat /\ c \in Nat /\ member.unpaidDays \in Nat /\ 0 \in Nat
  BY AmountsAreNat
<1>2. /\ BasicElement \in Planned /\ UnpaidLeaveElement \in Planned /\ ReimbursementElement \in Planned
  BY DEF Planned
<1>3. /\ LineOf(v, BasicElement) = Line("basic", "EARNING", b)
      /\ LineOf(v, UnpaidLeaveElement) = Line("unpaid_leave", "DEDUCTION", u)
      /\ LineOf(v, ReimbursementElement) = Line("reimbursement", "EARNING", c)
  BY PlannedAreRead
<1>4. d = IF member.unpaidDays > 0 THEN u ELSE 0
  BY <1>1 DEF Docked
<1> HIDE DEF v, b, u, c, d
<1>own. "basic" \in Own /\ "unpaid_leave" \in Own /\ "reimbursement" \in Own
  BY DEF Own
<1>5. e1 \in Seq(Planned) /\ Listing(e1, {"basic"}, b, 0)
  <2>1. <<>> \in Seq(Planned) /\ e1 = Append(<<>>, BasicElement) /\ e1 \in Seq(Planned)
    <3> HIDE DEF Planned
    <3> QED  BY <1>2
  <2>2. LinesOf(v, <<>>) = <<>>
    BY DEF LinesOf
  <2>3. LinesOf(v, e1) = Append(<<>>, Line("basic", "EARNING", b))
    <3>1. LinesOf(v, Append(<<>>, BasicElement)) = Append(LinesOf(v, <<>>), LineOf(v, BasicElement))
      BY <1>2, <2>1, LinesOfAppended
    <3> QED  BY <1>3, <2>1, <2>2, <3>1
  <2>4. Lists(<<>>, {}, 0, 0, 0, top)
    BY NothingListed
  <2>5. Lists(Append(<<>>, Line("basic", "EARNING", b)), {} \cup {"basic"}, 0 + b, 0, 0, top)
    <3>1. "basic" \in Own \cup Contributions /\ "basic" \notin {}
      BY <1>own
    <3> QED  BY <1>1, <1>own, <2>4, <3>1, OneMoreLine
  <2>6. {} \cup {"basic"} = {"basic"} /\ 0 + b = b
    BY <1>1
  <2> QED  BY <2>1, <2>3, <2>5, <2>6
<1> HIDE DEF e1
<1>6. e2 \in Seq(Planned) /\ Listing(e2, c2, b, d)
  <2>1. CASE member.unpaidDays > 0
    <3>1. e2 = Append(e1, UnpaidLeaveElement) /\ c2 = {"basic"} \cup {"unpaid_leave"} /\ d = 0 + u
      BY <1>1, <1>4, <2>1
    <3>2. e2 \in Seq(Planned)
      <4> HIDE DEF e2
      <4> QED  BY <1>2, <1>5, <3>1
    <3>3. LinesOf(v, e2) = Append(LinesOf(v, e1), Line("unpaid_leave", "DEDUCTION", u))
      BY <1>2, <1>3, <1>5, <3>1, LinesOfAppended
    <3>4. "unpaid_leave" \in Own \cup Contributions /\ "unpaid_leave" \notin {"basic"}
      BY <1>own
    <3>5. Lists(Append(LinesOf(v, e1), Line("unpaid_leave", "DEDUCTION", u)),
                {"basic"} \cup {"unpaid_leave"}, b, 0 + u, 0, top)
      BY <1>1, <1>own, <1>5, <3>4, OneMoreLine
    <3> QED  BY <3>1, <3>2, <3>3, <3>5
  <2>2. CASE ~(member.unpaidDays > 0)
    BY <1>4, <1>5, <2>2
  <2> QED  BY <2>1, <2>2
<1>c. c2 \subseteq {"basic", "unpaid_leave"}
  OBVIOUS
<1>d. d \in Nat
  BY <1>1, <1>4
<1> HIDE DEF e2, c2
<1>7. e3 \in Seq(Planned) /\ Listing(e3, c3, b + c, d)
  <2>1. CASE c > 0
    <3>1. e3 = Append(e2, ReimbursementElement) /\ c3 = c2 \cup {"reimbursement"}
      BY <2>1
    <3>2. e3 \in Seq(Planned)
      <4> HIDE DEF e3
      <4> QED  BY <1>2, <1>6, <3>1
    <3>3. LinesOf(v, e3) = Append(LinesOf(v, e2), Line("reimbursement", "EARNING", c))
      BY <1>2, <1>3, <1>6, <3>1, LinesOfAppended
    <3>4. "reimbursement" \in Own \cup Contributions /\ "reimbursement" \notin c2
      BY <1>own, <1>c
    <3>5. Lists(Append(LinesOf(v, e2), Line("reimbursement", "EARNING", c)),
                c2 \cup {"reimbursement"}, b + c, d, 0, top)
      BY <1>1, <1>own, <1>d, <1>6, <3>4, OneMoreLine
    <3> QED  BY <3>1, <3>2, <3>3, <3>5
  <2>2. CASE ~(c > 0)
    <3>1. b + c = b
      BY <1>1, <2>2
    <3> QED  BY <1>6, <2>2, <3>1
  <2> QED  BY <2>1, <2>2
<1>8. ElementsOf(member) = e3
  <2>1. /\ e1 \o <<UnpaidLeaveElement>> = Append(e1, UnpaidLeaveElement) /\ e1 \o <<>> = e1
    BY <1>2, <1>5, OneAfter, ConcatEmptySeq
  <2>2. e1 \o If(member.unpaidDays > 0, <<UnpaidLeaveElement>>) = e2
    BY <2>1 DEF If, e2
  <2>3. /\ e2 \o <<ReimbursementElement>> = Append(e2, ReimbursementElement) /\ e2 \o <<>> = e2
    BY <1>2, <1>6, OneAfter, ConcatEmptySeq
  <2>4. e2 \o If(member.claims > 0, <<ReimbursementElement>>) = e3
    BY <2>3 DEF If, c
  <2> HIDE DEF e3
  <2> QED  BY <2>2, <2>4 DEF ElementsOf, e1
<1>9. c3 \in SUBSET Own
  BY <1>own, <1>c
<1> QED  BY <1>7, <1>8, <1>9 DEF v, b, c, d

\* The calculation of a member's elements succeeds, with those lines.
LEMMA Calculated ==
    ASSUME NamesAreRead, NEW frequency \in DOMAIN periodsPerYear, NEW member \in Members
    PROVE  calculate(VariablesOf(frequency, member), ElementsOf(member))
             = [failed |-> FALSE,
                lines |-> LinesOf(VariablesOf(frequency, member), ElementsOf(member))]
<1> DEFINE v == VariablesOf(frequency, member)
           e == ElementsOf(member)
           n == Len(e)
<1>1. e \in Seq(Planned) /\ \E codes \in SUBSET Own :
        /\ Codes(LinesOf(v, e)) = codes /\ Cardinality(codes) = Len(LinesOf(v, e))
        /\ LinesOf(v, e) \in Seq(SlipLines)
  BY ElementsListed DEF Lists
<1>2. (\A el \in Planned : Reads(v, el)) /\ DOMAIN v \cap (RESERVED_NAMES \cup Own) = {}
  BY PlannedAreRead
<1> HIDE DEF v, e
<1>3. n \in Nat /\ DOMAIN e = 1..n /\ \A i \in 1..n : e[i] \in Planned
  <2> HIDE DEF Planned
  <2> QED  BY <1>1
<1>4. /\ DOMAIN LinesOf(v, e) = DOMAIN e /\ Len(LinesOf(v, e)) = n
      /\ \A i \in DOMAIN e : LinesOf(v, e)[i].code = e[i].code
  <2>1. DOMAIN LinesOf(v, e) = DOMAIN e
    BY DEF LinesOf
  <2>2. \A i \in DOMAIN e : LinesOf(v, e)[i].code = e[i].code
    BY DEF LinesOf, LineOf, Line
  <2>3. Len(LinesOf(v, e)) = n
    <3>1. LinesOf(v, e) \in Seq(SlipLines)
      BY <1>1
    <3>2. DOMAIN LinesOf(v, e) = 1..Len(LinesOf(v, e)) /\ Len(LinesOf(v, e)) \in Nat
      BY <3>1, LenProperties
    <3>3. \A k, m \in Nat : 1..k = 1..m => k = m
      OBVIOUS
    <3> QED  BY <1>3, <2>1, <3>2, <3>3
  <2> QED  BY <2>1, <2>2, <2>3
<1>5. Codes(LinesOf(v, e)) = Codes(e)
  BY <1>4 DEF Codes
<1>6. Codes(e) \subseteq Own /\ Cardinality(Codes(e)) = Len(e)
  BY <1>1, <1>4, <1>5
<1>7. Own \cap RESERVED_NAMES = {}
  BY DEF Own, RESERVED_NAMES
<1>8. \A i \in 1..n : Reads(v, e[i]) /\ Compiled(e[i].formula) # NoFormula
  <2> TAKE i \in 1..n
  <2>1. Reads(v, e[i])
    BY <1>2, <1>3
  <2>2. Name(e[i]) \in DOMAIN v /\ e[i].formula = <<Ident(Name(e[i]))>>
    BY <2>1, NamesRead
  <2>3. Compiled(<<Ident(Name(e[i]))>>) # NoFormula
    BY <2>2 DEF NamesAreRead
  <2> QED  BY <2>1, <2>2, <2>3
<1>9. Compiles(v, e)
  BY <1>2, <1>3, <1>6, <1>7, <1>8 DEF Compiles
<1>10. calculate(v, e) = [failed |-> FALSE, lines |-> LinesOf(v, e)]
  BY <1>3, <1>8, <1>9, ElementsAreRead
<1> QED  BY <1>10 DEF v, e

-----------------------------------------------------------------------------
(* The pack's lines on top. *)

\* The total of a type is the sum of its lines.
LEMMA TotalIs ==
    ASSUME NEW lines \in Seq(SlipLines), NEW type
    PROVE  TotalOf(lines, type) = SumOf(lines, Typed(type))
<1>1. \A i \in DOMAIN lines : lines[i] \in SlipLines
  <2> HIDE DEF SlipLines
  <2>1. DOMAIN lines = 1..Len(lines)
    BY LenProperties
  <2> QED  BY <2>1, ElementOfSeq
<1>2. {i \in DOMAIN lines : lines[i].type = type} = Picked(lines, Typed(type))
  BY <1>1 DEF Picked, Typed
<1> QED  BY <1>2 DEF TotalOf, SumOf, Sum

\* A slip of the lines so far.
Slip(lines) == [failed |-> FALSE, lines |-> lines]

\* A slip with other lines.
LEMMA OtherLines ==
    ASSUME NEW lines, NEW more, NEW slip, slip = Slip(lines)
    PROVE  [slip EXCEPT !.lines = more] = Slip(more)
<1> DEFINE r == [slip EXCEPT !.lines = more]
           t == Slip(more)
<1>1. slip.failed = FALSE /\ slip.lines = lines /\ DOMAIN slip = {"failed", "lines"}
  BY DEF Slip
<1>2. r = [x \in {"failed", "lines"} |-> IF x = "lines" THEN more ELSE slip[x]]
  BY <1>1
<1>3. t = [x \in {"failed", "lines"} |-> t[x]] /\ t["failed"] = slip["failed"] /\ t["lines"] = more
  BY <1>1 DEF Slip
<1> HIDE DEF r, t
<1>4. \A x \in {"failed", "lines"} : t[x] = IF x = "lines" THEN more ELSE slip[x]
  BY <1>3
<1> QED  BY <1>2, <1>3, <1>4 DEF r, t

\* Lines whose codes are new are appended.
LEMMA AppendedUnique ==
    ASSUME NEW lines \in Seq(SlipLines), NEW additions \in Seq(SlipLines),
           Codes(lines) \cap Codes(additions) = {}
    PROVE  AppendUnique(Slip(lines), additions) = Slip(lines \o additions)
<1> DEFINE s == Slip(lines)
           more == lines \o additions
<1>1. s.failed = FALSE /\ s.lines = lines
  BY DEF Slip
<1>2. [s EXCEPT !.lines = more] = Slip(more)
  <2> HIDE DEF more
  <2>1. s = Slip(lines)
    OBVIOUS
  <2> HIDE DEF s
  <2> QED  BY <2>1, OtherLines
<1> HIDE DEF s
<1> QED  BY <1>1, <1>2 DEF AppendUnique, s

\* A contribution is a line.
LEMMA ContributionsAreLines ==
    ASSUME NEW code \in Contributions, NEW amount \in Nat
    PROVE  Deduction(code, amount) \in SlipLines /\ Deduction(code, amount).code = code
<1>1. Deduction(code, amount) = [code |-> code, type |-> "DEDUCTION", amount |-> amount]
  BY DEF Deduction, Line
<1>2. "DEDUCTION" \in Types
  BY DEF Types
<1> QED  BY <1>1, <1>2 DEF SlipLines

\* No contribution has the code of an element.
LEMMA ContributionsAreNotOwn == Own \cap Contributions = {}
BY DEF Own, Contributions

\* One contribution more on the slip.
LEMMA OneMoreContribution ==
    ASSUME NEW lines, NEW codes, NEW earned \in Nat, NEW docked \in Nat, NEW withheld \in Nat, NEW top,
           Lists(lines, codes, earned, docked, withheld, top),
           NEW code \in Contributions, code \notin codes, NEW amount \in Nat, amount \in 0..top
    PROVE  Lists(Append(lines, Deduction(code, amount)), codes \cup {code},
                 earned, docked, withheld + amount, top)
<1>1. code \notin Own /\ code \in Own \cup Contributions
  BY ContributionsAreNotOwn
<1> QED  BY <1>1, OneMoreLine DEF Deduction

\* The totals of a slip whose lines are known.
LEMMA TotalsAre ==
    ASSUME NEW lines, NEW codes, NEW earned \in Nat, NEW docked \in Nat, NEW withheld \in Nat, NEW top,
           Lists(lines, codes, earned, docked, withheld, top)
    PROVE  WithTotals(Slip(lines))
             = [failed |-> FALSE, lines |-> lines, gross |-> earned,
                deductions |-> docked + withheld, net |-> earned - (docked + withheld)]
<1>1. TotalOf(lines, "EARNING") = earned /\ TotalOf(lines, "DEDUCTION") = docked + withheld
  BY TotalIs DEF Lists
<1> QED  BY <1>1 DEF WithTotals, Slip

\* The codes of lines put on a slip.
LEMMA FewCodes ==
    ASSUME NEW x, NEW y, NEW z
    PROVE  /\ Codes(<<>>) = {} /\ Codes(<<x>>) = {x.code} /\ Codes(<<x, y>>) = {x.code, y.code}
           /\ Codes(<<x, y, z>>) = {x.code, y.code, z.code}
<1>1. Codes(<<>>) = {}
  BY DEF Codes
<1>2. Codes(<<x>>) = {x.code}
  BY DEF Codes
<1>3. Codes(<<x, y>>) = {x.code, y.code}
  BY DEF Codes
<1>4. Codes(<<x, y, z>>) = {x.code, y.code, z.code}
  BY DEF Codes
<1> QED  BY <1>1, <1>2, <1>3, <1>4

\* Appending no line.
LEMMA NothingAdded ==
    ASSUME NEW lines \in Seq(SlipLines)
    PROVE  AppendUnique(Slip(lines), <<>>) = Slip(lines)
<1>1. <<>> \in Seq(SlipLines) /\ Codes(lines) \cap Codes(<<>>) = {} /\ lines \o <<>> = lines
  BY FewCodes, EmptySeq, ConcatEmptySeq
<1> QED  BY <1>1, AppendedUnique

\* Appending one contribution.
LEMMA OneAdded ==
    ASSUME NEW lines, NEW codes, NEW earned \in Nat, NEW docked \in Nat, NEW withheld \in Nat, NEW top,
           Lists(lines, codes, earned, docked, withheld, top),
           NEW a \in Contributions, a \notin codes, NEW x \in Nat, x \in 0..top
    PROVE  /\ AppendUnique(Slip(lines), <<Deduction(a, x)>>) = Slip(Append(lines, Deduction(a, x)))
           /\ Lists(Append(lines, Deduction(a, x)), codes \cup {a}, earned, docked, withheld + x, top)
<1> DEFINE l == Deduction(a, x)
<1>1. l \in SlipLines /\ l.code = a
  BY ContributionsAreLines
<1>2. lines \in Seq(SlipLines) /\ Codes(lines) = codes
  BY DEF Lists
<1> HIDE DEF l
<1>3. <<l>> \in Seq(SlipLines) /\ lines \o <<l>> = Append(lines, l)
  <2> DEFINE S == SlipLines
  <2>1. l \in S /\ lines \in Seq(S)
    BY <1>1, <1>2
  <2> HIDE DEF S
  <2>2. <<l>> \in Seq(S)
    BY <2>1
  <2>3. lines \o <<l>> = Append(lines, l)
    BY <2>1, OneAfter
  <2> QED  BY <2>2, <2>3 DEF S
<1>4. Codes(lines) \cap Codes(<<l>>) = {}
  BY <1>1, <1>2, FewCodes
<1>5. AppendUnique(Slip(lines), <<l>>) = Slip(Append(lines, l))
  BY <1>2, <1>3, <1>4, AppendedUnique
<1>6. Lists(Append(lines, Deduction(a, x)), codes \cup {a}, earned, docked, withheld + x, top)
  BY OneMoreContribution
<1> QED  BY <1>5, <1>6 DEF l

\* Appending two contributions.
LEMMA TwoAdded ==
    ASSUME NEW lines, NEW codes, NEW earned \in Nat, NEW docked \in Nat, NEW withheld \in Nat, NEW top,
           Lists(lines, codes, earned, docked, withheld, top),
           NEW a \in Contributions, a \notin codes, NEW x \in Nat, x \in 0..top,
           NEW b \in Contributions, b \notin codes, a # b, NEW y \in Nat, y \in 0..top
    PROVE  LET more == Append(Append(lines, Deduction(a, x)), Deduction(b, y))
           IN /\ AppendUnique(Slip(lines), <<Deduction(a, x), Deduction(b, y)>>) = Slip(more)
              /\ Lists(more, (codes \cup {a}) \cup {b}, earned, docked, (withheld + x) + y, top)
<1> DEFINE l == Deduction(a, x)
           k == Deduction(b, y)
<1>1. l \in SlipLines /\ l.code = a /\ k \in SlipLines /\ k.code = b
  BY ContributionsAreLines
<1>2. lines \in Seq(SlipLines) /\ Codes(lines) = codes
  BY DEF Lists
<1>3. Lists(Append(lines, Deduction(a, x)), codes \cup {a}, earned, docked, withheld + x, top)
  BY OneMoreContribution
<1>4. Lists(Append(Append(lines, Deduction(a, x)), Deduction(b, y)), (codes \cup {a}) \cup {b},
            earned, docked, (withheld + x) + y, top)
  <2>1. withheld + x \in Nat /\ b \notin codes \cup {a}
    OBVIOUS
  <2> QED  BY <1>3, <2>1, OneMoreContribution
<1> HIDE DEF l, k
<1>5. <<l, k>> \in Seq(SlipLines) /\ lines \o <<l, k>> = Append(Append(lines, l), k)
  <2> DEFINE S == SlipLines
  <2>1. l \in S /\ k \in S /\ lines \in Seq(S)
    BY <1>1, <1>2
  <2> HIDE DEF S
  <2>2. <<l, k>> \in Seq(S)
    BY <2>1
  <2>3. lines \o <<l, k>> = Append(Append(lines, l), k)
    BY <2>1, TwoAfter
  <2> QED  BY <2>2, <2>3 DEF S
<1>6. Codes(lines) \cap Codes(<<l, k>>) = {}
  <2>1. Codes(<<l, k>>) = {l.code, k.code}
    BY FewCodes, Zenon
  <2> QED  BY <1>1, <1>2, <2>1
<1>7. AppendUnique(Slip(lines), <<l, k>>) = Slip(Append(Append(lines, l), k))
  BY <1>2, <1>5, <1>6, AppendedUnique
<1> QED  BY <1>4, <1>7 DEF l, k

\* Appending three contributions.
LEMMA ThreeAdded ==
    ASSUME NEW lines, NEW codes, NEW earned \in Nat, NEW docked \in Nat, NEW withheld \in Nat, NEW top,
           Lists(lines, codes, earned, docked, withheld, top),
           NEW a \in Contributions, a \notin codes, NEW x \in Nat, x \in 0..top,
           NEW b \in Contributions, b \notin codes, a # b, NEW y \in Nat, y \in 0..top,
           NEW c \in Contributions, c \notin codes, c # a, c # b, NEW z \in Nat, z \in 0..top
    PROVE  LET more == Append(Append(Append(lines, Deduction(a, x)), Deduction(b, y)), Deduction(c, z))
           IN /\ AppendUnique(Slip(lines), <<Deduction(a, x), Deduction(b, y), Deduction(c, z)>>)
                   = Slip(more)
              /\ Lists(more, ((codes \cup {a}) \cup {b}) \cup {c}, earned, docked,
                       ((withheld + x) + y) + z, top)
<1> DEFINE l == Deduction(a, x)
           k == Deduction(b, y)
           m == Deduction(c, z)
<1>1. l \in SlipLines /\ l.code = a /\ k \in SlipLines /\ k.code = b /\ m \in SlipLines /\ m.code = c
  BY ContributionsAreLines
<1>2. lines \in Seq(SlipLines) /\ Codes(lines) = codes
  BY DEF Lists
<1>3. Lists(Append(Append(lines, Deduction(a, x)), Deduction(b, y)), (codes \cup {a}) \cup {b},
            earned, docked, (withheld + x) + y, top)
  BY TwoAdded
<1>4. Lists(Append(Append(Append(lines, Deduction(a, x)), Deduction(b, y)), Deduction(c, z)),
            ((codes \cup {a}) \cup {b}) \cup {c}, earned, docked, ((withheld + x) + y) + z, top)
  <2>1. (withheld + x) + y \in Nat /\ c \notin (codes \cup {a}) \cup {b}
    OBVIOUS
  <2> QED  BY <1>3, <2>1, OneMoreContribution
<1> HIDE DEF l, k, m
<1>5. /\ <<l, k, m>> \in Seq(SlipLines)
      /\ lines \o <<l, k, m>> = Append(Append(Append(lines, l), k), m)
  <2> DEFINE S == SlipLines
  <2>1. l \in S /\ k \in S /\ m \in S /\ lines \in Seq(S)
    BY <1>1, <1>2
  <2> HIDE DEF S
  <2>2. <<l, k, m>> \in Seq(S)
    BY <2>1
  <2>3. lines \o <<l, k, m>> = Append(Append(Append(lines, l), k), m)
    BY <2>1, ThreeAfter
  <2> QED  BY <2>2, <2>3 DEF S
<1>6. Codes(lines) \cap Codes(<<l, k, m>>) = {}
  <2>1. Codes(<<l, k, m>>) = {l.code, k.code, m.code}
    BY FewCodes, Zenon
  <2> QED  BY <1>1, <1>2, <2>1
<1>7. AppendUnique(Slip(lines), <<l, k, m>>) = Slip(Append(Append(Append(lines, l), k), m))
  BY <1>2, <1>5, <1>6, AppendedUnique
<1> QED  BY <1>4, <1>7 DEF l, k, m

\* The sums of up to three contributions.
LEMMA FewSummed ==
    ASSUME NEW a, NEW x \in Nat
    PROVE  Summed(<<>>) = 0 /\ Summed(<<Deduction(a, x)>>) = x
<1>1. Summed(<<>>) = 0
  <2>1. DOMAIN <<>> = {}
    OBVIOUS
  <2>2. Sum(Amounts(<<>>), {}) = 0
    BY SumStep, FS_EmptySet
  <2> QED  BY <2>1, <2>2 DEF Summed, Sum
<1>2. Summed(<<Deduction(a, x)>>) = x
  <2> DEFINE s == <<Deduction(a, x)>>
             f == Amounts(s)
  <2>1. DOMAIN s = {1} /\ f[1] = x
    <3>1. DOMAIN s = {1} /\ s[1] = Deduction(a, x)
      OBVIOUS
    <3>2. Deduction(a, x).amount = x
      BY DEF Deduction, Line
    <3> HIDE DEF s
    <3> QED  BY <3>1, <3>2 DEF Amounts
  <2>2. IsFiniteSet({1}) /\ {1} \ {1} = {}
    BY FS_Singleton
  <2> HIDE DEF f, s
  <2>3. Sum(f, {1}) = f[1] + Sum(f, {})
    <3>1. \A i \in {1} : f[i] \in Nat
      BY <2>1
    <3>2. 1 \in {1}
      OBVIOUS
    <3> QED  BY <2>2, <3>1, <3>2, SumRemove
  <2>4. Sum(f, {}) = 0
    BY SumStep, FS_EmptySet
  <2>5. Sum(f, {1}) = x
    BY <2>1, <2>3, <2>4
  <2>6. Summed(s) = Sum(f, DOMAIN s)
    BY DEF Summed, Sum, f
  <2>7. Summed(s) = x
    BY <2>1, <2>5, <2>6
  <2> QED  BY <2>7 DEF s
<1> QED  BY <1>1, <1>2

\* What the calculation asks of a pack.
Stat(unit, frequency) ==
  [periods |-> periodsPerYear[frequency], ytd |-> 0, preTax |-> 0, status |-> "single", unit |-> unit]
Asks(unit, frequency, gross, taxable) == Context(Stat(unit, frequency), gross, taxable)

\* Two contexts of which the second has more pay.
LEMMA AsksAreContexts ==
    ASSUME NEW unit \in Nat \ {0}, NEW frequency \in DOMAIN periodsPerYear,
           NEW g \in Nat, NEW t \in 0..g, NEW h \in Nat, NEW s \in 0..h, g <= h, t <= s
    PROVE  /\ MorePay(Asks(unit, frequency, g, t), Asks(unit, frequency, h, s))
           /\ Asks(unit, frequency, g, t).gross = g /\ Asks(unit, frequency, g, t).taxable = t
           /\ Asks(unit, frequency, h, s).gross = h /\ Asks(unit, frequency, h, s).taxable = s
<1>1. periodsPerYear[frequency] \in Nat \ {0}
  BY DEF periodsPerYear
<1> DEFINE p == periodsPerYear[frequency]
<1> HIDE DEF p
<1>2. \A x, y : Asks(unit, frequency, x, y)
        = [gross |-> x, taxable |-> y, periods |-> p, ytd |-> 0, status |-> "single", unit |-> unit]
  BY DEF Asks, Context, Stat, p
<1>3. p \in Nat \ {0}
  BY <1>1 DEF p
<1>4. IsContext(Asks(unit, frequency, g, t)) /\ IsContext(Asks(unit, frequency, h, s))
  BY <1>2, <1>3 DEF IsContext
<1> QED  BY <1>2, <1>3, <1>4 DEF MorePay

\* What a pack withholds of a gross.
Pension(unit, frequency, gross) == pension(Asks(unit, frequency, gross, gross))
Withheld(country, unit, frequency, gross) ==
  LET full == Asks(unit, frequency, gross, gross)
      left == Asks(unit, frequency, gross, gross - Pension(unit, frequency, gross))
  IN IF country = "US" THEN ((0 + federalIncomeTax(full)) + socialSecurity(full)) + medicare(full)
     ELSE IF country = "GB"
       THEN ((0 + Pension(unit, frequency, gross)) + paye(left)) + nationalInsurance(left)
     ELSE (0 + incomeTax(full)) + providentFund(full)

\* Each contribution of a pack is within the gross.
LEMMA ContributionsWithin ==
    ASSUME NEW unit \in Nat \ {0}, NEW frequency \in DOMAIN periodsPerYear, NEW gross \in Nat
    PROVE  LET full == Asks(unit, frequency, gross, gross)
               left == Asks(unit, frequency, gross, gross - Pension(unit, frequency, gross))
           IN /\ federalIncomeTax(full) \in 0..gross /\ socialSecurity(full) \in 0..gross
              /\ medicare(full) \in 0..gross
              /\ Pension(unit, frequency, gross) \in 0..gross
              /\ paye(left) \in 0..gross /\ nationalInsurance(left) \in 0..gross
              /\ incomeTax(full) \in 0..gross /\ providentFund(full) \in 0..gross
<1> DEFINE full == Asks(unit, frequency, gross, gross)
           left == Asks(unit, frequency, gross, gross - Pension(unit, frequency, gross))
<1>1. MorePay(full, full) /\ full.gross = gross /\ full.taxable = gross
  <2>1. gross \in 0..gross /\ gross <= gross
    OBVIOUS
  <2> QED  BY <2>1, AsksAreContexts
<1> HIDE DEF full
<1>2. /\ federalIncomeTax(full) \in 0..gross /\ socialSecurity(full) \in 0..gross
      /\ medicare(full) \in 0..gross /\ pension(full) \in 0..gross
      /\ incomeTax(full) \in 0..gross /\ providentFund(full) \in 0..gross
  <2>1. federalIncomeTax(full) \in 0..gross
    BY <1>1, FederalTaxTakes DEF Takes
  <2>2. socialSecurity(full) \in 0..gross
    BY <1>1, SocialSecurityTakes DEF Takes
  <2>3. medicare(full) \in 0..gross
    BY <1>1, MedicareTakes DEF Takes
  <2>4. pension(full) \in 0..gross
    BY <1>1, PensionTakes DEF Takes
  <2>5. incomeTax(full) \in 0..gross
    BY <1>1, SlabTaxTakes DEF Takes
  <2>6. providentFund(full) \in 0..gross
    BY <1>1, ProvidentFundTakes DEF Takes
  <2> QED  BY <2>1, <2>2, <2>3, <2>4, <2>5, <2>6
<1>3. Pension(unit, frequency, gross) \in 0..gross
  BY <1>2 DEF Pension, full
<1> DEFINE rest == gross - Pension(unit, frequency, gross)
<1>4. MorePay(left, left) /\ left.gross = gross /\ left.taxable = rest /\ rest \in 0..gross
  <2>1. rest \in 0..gross /\ gross <= gross /\ rest <= rest
    BY <1>3
  <2> HIDE DEF rest
  <2>2. /\ MorePay(Asks(unit, frequency, gross, rest), Asks(unit, frequency, gross, rest))
        /\ Asks(unit, frequency, gross, rest).gross = gross
        /\ Asks(unit, frequency, gross, rest).taxable = rest
    BY <2>1, AsksAreContexts
  <2> QED  BY <2>1, <2>2 DEF rest
<1> HIDE DEF left, rest
<1>5. paye(left) \in 0..gross
  <2>1. paye(left) \in 0..rest
    BY <1>4, PayeTakes DEF Takes
  <2> QED  BY <1>4, <2>1
<1>6. nationalInsurance(left) \in 0..gross
  BY <1>4, InsuranceTakes DEF Takes
<1> QED  BY <1>2, <1>3, <1>5, <1>6 DEF full, left

\* runPayroll on a base whose lines are known.
LEMMA PackLists ==
    ASSUME NEW country \in Countries, NEW unit \in Nat \ {0}, NEW frequency \in DOMAIN periodsPerYear,
           NEW variables, NEW elements, NEW lines, calculate(variables, elements) = Slip(lines),
           NEW codes \in SUBSET Own, NEW gross \in Nat, NEW docked \in Nat,
           Lists(lines, codes, gross, docked, 0, gross)
    PROVE  \E all, more :
             /\ runPayroll(country, Stat(unit, frequency), variables, elements) = WithTotals(Slip(all))
             /\ Lists(all, more, gross, docked, Withheld(country, unit, frequency, gross), gross)
             /\ Withheld(country, unit, frequency, gross) \in Nat
<1> DEFINE stat == Stat(unit, frequency)
           full == Asks(unit, frequency, gross, gross)
           left == Asks(unit, frequency, gross, gross - Pension(unit, frequency, gross))
           pretax == PackDeductions(country, full)
           taxable == Greatest(0, gross - (0 + Summed(pretax)))
           taxes == PackStatutory(country, Context(stat, gross, taxable))
           run == runPayroll(country, stat, variables, elements)
           within(n) == n \in Nat /\ n \in 0..gross
<1>0. lines \in Seq(SlipLines) /\ Codes(lines) = codes
  BY DEF Lists
<1>1. run = WithTotals(AppendUnique(AppendUnique(Slip(lines), pretax), taxes))
  <2>1. TotalOf(lines, "EARNING") = gross
    BY <1>0, TotalIs DEF Lists
  <2>2. Slip(lines).lines = lines
    BY DEF Slip
  <2>3. stat.preTax = 0
    BY DEF Stat
  <2> QED  BY <2>1, <2>2, <2>3 DEF runPayroll, Asks
<1>2. codes \cap Contributions = {}
  BY ContributionsAreNotOwn
<1>3. /\ federalIncomeTax(full) \in 0..gross /\ socialSecurity(full) \in 0..gross
      /\ medicare(full) \in 0..gross
      /\ Pension(unit, frequency, gross) \in 0..gross
      /\ paye(left) \in 0..gross /\ nationalInsurance(left) \in 0..gross
      /\ incomeTax(full) \in 0..gross /\ providentFund(full) \in 0..gross
  BY ContributionsWithin
<1>4. /\ "us_fit" \in Contributions /\ "us_ss" \in Contributions /\ "us_medicare" \in Contributions
      /\ "uk_pension" \in Contributions /\ "uk_paye" \in Contributions /\ "uk_ni" \in Contributions
      /\ "in_tax" \in Contributions /\ "in_epf" \in Contributions
  BY DEF Contributions
<1>5. /\ "us_fit" # "us_ss" /\ "us_fit" # "us_medicare" /\ "us_ss" # "us_medicare"
      /\ "uk_pension" # "uk_paye" /\ "uk_pension" # "uk_ni" /\ "uk_paye" # "uk_ni"
      /\ "in_tax" # "in_epf"
  OBVIOUS
<1>6. \A n \in 0..gross : n \in Nat
  OBVIOUS
<1>7. country # "GB" => pretax = <<>> /\ taxable = gross
  <2> SUFFICES ASSUME country # "GB" PROVE pretax = <<>> /\ taxable = gross
    OBVIOUS
  <2>1. pretax = <<>>
    BY DEF PackDeductions
  <2>2. Summed(pretax) = 0
    BY <2>1, FewSummed
  <2> QED  BY <2>1, <2>2 DEF Greatest
<1>8. CASE country = "US"
  <2> DEFINE x == federalIncomeTax(full)
             y == socialSecurity(full)
             z == medicare(full)
  <2>1. taxes = <<Deduction("us_fit", x), Deduction("us_ss", y), Deduction("us_medicare", z)>>
    BY <1>7, <1>8 DEF PackStatutory, Asks
  <2>2. x \in 0..gross /\ y \in 0..gross /\ z \in 0..gross /\ x \in Nat /\ y \in Nat /\ z \in Nat
    BY <1>3, <1>6
  <2>3. Withheld(country, unit, frequency, gross) = ((0 + x) + y) + z
    BY <1>8 DEF Withheld
  <2>4. AppendUnique(Slip(lines), pretax) = Slip(lines)
    BY <1>0, <1>7, <1>8, NothingAdded
  <2> DEFINE all == Append(Append(Append(lines, Deduction("us_fit", x)), Deduction("us_ss", y)),
                           Deduction("us_medicare", z))
             more == ((codes \cup {"us_fit"}) \cup {"us_ss"}) \cup {"us_medicare"}
  <2> HIDE DEF x, y, z
  <2>5. /\ AppendUnique(Slip(lines), <<Deduction("us_fit", x), Deduction("us_ss", y), Deduction("us_medicare", z)>>)
             = Slip(all)
        /\ Lists(all, more, gross, docked, ((0 + x) + y) + z, gross)
    <3>1. "us_fit" \notin codes /\ "us_ss" \notin codes /\ "us_medicare" \notin codes /\ 0 \in Nat
      BY <1>2, <1>4
    <3> QED  BY <1>4, <1>5, <2>2, <3>1, ThreeAdded
  <2>6. run = WithTotals(Slip(all))
    <3> HIDE DEF all, taxes, pretax, run
    <3> QED  BY <1>1, <2>1, <2>4, <2>5
  <2>7. ((0 + x) + y) + z \in Nat
    BY <2>2
  <2> QED  BY <2>3, <2>5, <2>6, <2>7
<1>9. CASE country = "IN"
  <2> DEFINE x == incomeTax(full)
             y == providentFund(full)
  <2>1. taxes = <<Deduction("in_tax", x), Deduction("in_epf", y)>>
    BY <1>7, <1>9 DEF PackStatutory, Asks
  <2>2. x \in 0..gross /\ y \in 0..gross /\ x \in Nat /\ y \in Nat
    BY <1>3, <1>6
  <2>3. Withheld(country, unit, frequency, gross) = (0 + x) + y
    BY <1>9 DEF Withheld
  <2>4. AppendUnique(Slip(lines), pretax) = Slip(lines)
    BY <1>0, <1>7, <1>9, NothingAdded
  <2> DEFINE all == Append(Append(lines, Deduction("in_tax", x)), Deduction("in_epf", y))
             more == (codes \cup {"in_tax"}) \cup {"in_epf"}
  <2> HIDE DEF x, y
  <2>5. /\ AppendUnique(Slip(lines), <<Deduction("in_tax", x), Deduction("in_epf", y)>>) = Slip(all)
        /\ Lists(all, more, gross, docked, (0 + x) + y, gross)
    <3>1. "in_tax" \notin codes /\ "in_epf" \notin codes /\ 0 \in Nat
      BY <1>2, <1>4
    <3> QED  BY <1>4, <1>5, <2>2, <3>1, TwoAdded
  <2>6. run = WithTotals(Slip(all))
    <3> HIDE DEF all, taxes, pretax, run
    <3> QED  BY <1>1, <2>1, <2>4, <2>5
  <2>7. (0 + x) + y \in Nat
    BY <2>2
  <2> QED  BY <2>3, <2>5, <2>6, <2>7
<1>10. CASE country = "GB"
  <2> DEFINE w == Pension(unit, frequency, gross)
             x == paye(left)
             y == nationalInsurance(left)
  <2>1. pretax = <<Deduction("uk_pension", w)>>
    BY <1>10 DEF PackDeductions, Pension
  <2>2. w \in 0..gross /\ x \in 0..gross /\ y \in 0..gross /\ w \in Nat /\ x \in Nat /\ y \in Nat
    BY <1>3, <1>6
  <2>3. taxable = gross - w
    <3>1. Summed(pretax) = w
      BY <2>1, <2>2, FewSummed
    <3> HIDE DEF w, pretax
    <3> QED  BY <2>2, <3>1 DEF Greatest
  <2>4. taxes = <<Deduction("uk_paye", x), Deduction("uk_ni", y)>>
    BY <1>10, <2>3 DEF PackStatutory, Asks
  <2>5. Withheld(country, unit, frequency, gross) = ((0 + w) + x) + y
    BY <1>10 DEF Withheld
  <2> DEFINE some == Append(lines, Deduction("uk_pension", w))
             all == Append(Append(some, Deduction("uk_paye", x)), Deduction("uk_ni", y))
             c == codes \cup {"uk_pension"}
             more == (c \cup {"uk_paye"}) \cup {"uk_ni"}
  <2> HIDE DEF w, x, y
  <2>6. /\ AppendUnique(Slip(lines), <<Deduction("uk_pension", w)>>) = Slip(some)
        /\ Lists(some, c, gross, docked, 0 + w, gross)
    <3>1. "uk_pension" \notin codes /\ 0 \in Nat
      BY <1>2, <1>4
    <3> QED  BY <1>4, <2>2, <3>1, OneAdded
  <2>7. /\ AppendUnique(Slip(some), <<Deduction("uk_paye", x), Deduction("uk_ni", y)>>) = Slip(all)
        /\ Lists(all, more, gross, docked, ((0 + w) + x) + y, gross)
    <3>1. "uk_paye" \notin c /\ "uk_ni" \notin c /\ 0 + w \in Nat
      BY <1>2, <1>4, <1>5, <2>2
    <3> HIDE DEF some, c
    <3> QED  BY <1>4, <1>5, <2>2, <2>6, <3>1, TwoAdded
  <2>8. run = WithTotals(Slip(all))
    <3> HIDE DEF all, some, taxes, pretax, run
    <3> QED  BY <1>1, <2>1, <2>4, <2>6, <2>7
  <2>9. ((0 + w) + x) + y \in Nat
    BY <2>2
  <2> QED  BY <2>5, <2>7, <2>8, <2>9
<1> QED  BY <1>8, <1>9, <1>10 DEF Countries

\* A member's payslip: it succeeds, and its totals are the salary and claims, the dock and what is withheld.
LEMMA PayslipIs ==
    ASSUME NamesAreRead, NEW country \in Countries, NEW unit \in Nat \ {0},
           NEW frequency \in DOMAIN periodsPerYear, NEW member \in Members
    PROVE  LET gross == PeriodGross(member, frequency) + member.claims
               slip == MemberPayslip(country, unit, frequency, member)
           IN /\ gross \in Nat /\ Docked(member, frequency) \in Nat
              /\ Withheld(country, unit, frequency, gross) \in Nat
              /\ slip.failed = FALSE /\ slip.gross = gross
              /\ slip.net = gross - (Docked(member, frequency) + Withheld(country, unit, frequency, gross))
              /\ \E codes : Lists(slip.lines, codes, gross, Docked(member, frequency),
                                  Withheld(country, unit, frequency, gross), gross)
<1> DEFINE gross == PeriodGross(member, frequency) + member.claims
           slip == MemberPayslip(country, unit, frequency, member)
           v == VariablesOf(frequency, member)
           e == ElementsOf(member)
           docked == Docked(member, frequency)
           w == Withheld(country, unit, frequency, gross)
<1>1. gross \in Nat /\ docked \in Nat
  BY AmountsAreNat DEF Docked
<1>2. slip = runPayroll(country, Stat(unit, frequency), v, e)
  BY DEF MemberPayslip, Stat, VariablesOf, ElementsOf
<1>3. PICK codes \in SUBSET Own : Lists(LinesOf(v, e), codes, gross, docked, 0, gross)
  BY ElementsListed
<1>4. calculate(v, e) = Slip(LinesOf(v, e))
  BY Calculated DEF Slip
<1> HIDE DEF gross, slip, v, e, docked
<1>5. PICK all, more :
        /\ runPayroll(country, Stat(unit, frequency), v, e) = WithTotals(Slip(all))
        /\ Lists(all, more, gross, docked, w, gross) /\ w \in Nat
  BY <1>1, <1>3, <1>4, PackLists
<1> HIDE DEF w
<1>6. /\ slip.failed = FALSE /\ slip.lines = all /\ slip.gross = gross
      /\ slip.net = gross - (docked + w)
  <2>1. gross \in Nat /\ docked \in Nat /\ w \in Nat /\ Lists(all, more, gross, docked, w, gross)
    BY <1>1, <1>5
  <2>2. WithTotals(Slip(all))
          = [failed |-> FALSE, lines |-> all, gross |-> gross,
             deductions |-> docked + w, net |-> gross - (docked + w)]
    BY <2>1, TotalsAre
  <2> QED  BY <1>2, <1>5, <2>2
<1>7. Lists(slip.lines, more, gross, docked, w, gross)
  BY <1>5, <1>6
<1> QED  BY <1>1, <1>5, <1>6, <1>7 DEF gross, slip, docked, w

\* What separates two slips of the same employee: the contributions.
LEMMA WithheldRises ==
    ASSUME NEW country \in Countries, NEW unit \in Nat \ {0}, NEW frequency \in DOMAIN periodsPerYear,
           NEW g \in Nat, NEW rise \in Nat, rise >= 4
    PROVE  LET more == Withheld(country, unit, frequency, g + rise) - Withheld(country, unit, frequency, g)
           IN IF country = "GB" THEN 10000 * more < 5575 * rise + 25500
              ELSE 10000 * more < 4465 * rise + 30000
<1> DEFINE h == g + rise
           full == Asks(unit, frequency, g, g)
           fuller == Asks(unit, frequency, h, h)
           p == Pension(unit, frequency, g)
           q == Pension(unit, frequency, h)
           left == Asks(unit, frequency, g, g - p)
           more == Asks(unit, frequency, h, h - q)
<1>1. h \in Nat /\ g <= h /\ h - g = rise
  OBVIOUS
<1>2. /\ MorePay(full, fuller) /\ full.gross = g /\ full.taxable = g /\ fuller.gross = h /\ fuller.taxable = h
  <2>1. g \in 0..g /\ h \in 0..h
    OBVIOUS
  <2> HIDE DEF h
  <2> QED  BY <1>1, <2>1, AsksAreContexts
<1>3. p = pension(full) /\ q = pension(fuller)
  BY DEF Pension
<1> HIDE DEF full, fuller, p, q, h
<1>4. CASE country = "US"
  <2>1. Takes(federalIncomeTax(full), federalIncomeTax(fuller), g, h, 37, 100)
    BY <1>2, FederalTaxTakes
  <2>2. Takes(socialSecurity(full), socialSecurity(fuller), g, h, 62, 1000)
    BY <1>2, SocialSecurityTakes
  <2>3. Takes(medicare(full), medicare(fuller), g, h, 145, 10000)
    BY <1>2, MedicareTakes
  <2>4. /\ Withheld(country, unit, frequency, g)
             = ((0 + federalIncomeTax(full)) + socialSecurity(full)) + medicare(full)
        /\ Withheld(country, unit, frequency, h)
             = ((0 + federalIncomeTax(fuller)) + socialSecurity(fuller)) + medicare(fuller)
    BY <1>4 DEF Withheld, full, fuller
  <2>5. 10000 * (Withheld(country, unit, frequency, h) - Withheld(country, unit, frequency, g))
          < 4465 * rise + 30000
    BY <1>1, <2>1, <2>2, <2>3, <2>4 DEF Takes
  <2> QED  BY <1>4, <2>5 DEF h
<1>5. CASE country = "IN"
  <2>1. Takes(incomeTax(full), incomeTax(fuller), g, h, 780, 2500)
    BY <1>2, SlabTaxTakes
  <2>2. Takes(providentFund(full), providentFund(fuller), g, h, 12, 100)
    BY <1>2, ProvidentFundTakes
  <2>4. /\ Withheld(country, unit, frequency, g) = (0 + incomeTax(full)) + providentFund(full)
        /\ Withheld(country, unit, frequency, h) = (0 + incomeTax(fuller)) + providentFund(fuller)
    BY <1>5 DEF Withheld, full, fuller
  <2>5. 10000 * (Withheld(country, unit, frequency, h) - Withheld(country, unit, frequency, g))
          < 4465 * rise + 30000
    BY <1>1, <2>1, <2>2, <2>4 DEF Takes
  <2> QED  BY <1>5, <2>5 DEF h
<1>6. CASE country = "GB"
  <2>1. Takes(p, q, g, h, 5, 100)
    BY <1>2, <1>3, PensionTakes
  <2>2. p \in 0..g /\ q \in 0..h
    <3>1. /\ Pension(unit, frequency, g) \in 0..g
          /\ Pension(unit, frequency, h) \in 0..h
      BY <1>1, ContributionsWithin
    <3> QED  BY <3>1 DEF p, q
  <2>3. /\ g - p \in 0..g /\ h - q \in 0..h /\ g - p <= h - q
        /\ 100 * (q - p) < 5 * rise + 100
    BY <1>1, <2>1, <2>2 DEF Takes
  <2>4. /\ MorePay(left, more) /\ left.gross = g /\ left.taxable = g - p
        /\ more.gross = h /\ more.taxable = h - q
    <3> DEFINE a == g - p
               b == h - q
    <3>1. a \in 0..g /\ b \in 0..h /\ a <= b
      BY <2>3
    <3> HIDE DEF a, b
    <3>2. /\ MorePay(Asks(unit, frequency, g, a), Asks(unit, frequency, h, b))
          /\ Asks(unit, frequency, g, a).gross = g /\ Asks(unit, frequency, g, a).taxable = a
          /\ Asks(unit, frequency, h, b).gross = h /\ Asks(unit, frequency, h, b).taxable = b
      BY <1>1, <3>1, AsksAreContexts
    <3> QED  BY <3>2 DEF a, b
  <2> HIDE DEF left, more
  <2>5. Takes(paye(left), paye(more), g - p, h - q, 45, 100)
    BY <2>4, PayeTakes
  <2>6. Takes(nationalInsurance(left), nationalInsurance(more), g, h, 8, 100)
    BY <2>4, InsuranceTakes
  <2>7. /\ Withheld(country, unit, frequency, g) = ((0 + p) + paye(left)) + nationalInsurance(left)
        /\ Withheld(country, unit, frequency, h) = ((0 + q) + paye(more)) + nationalInsurance(more)
    BY <1>6 DEF Withheld, left, more, p, q
  <2>8. 10000 * (Withheld(country, unit, frequency, h) - Withheld(country, unit, frequency, g))
          < 5575 * rise + 25500
    BY <1>1, <2>2, <2>3, <2>5, <2>6, <2>7 DEF Takes
  <2> QED  BY <1>6, <2>8 DEF h
<1> QED  BY <1>4, <1>5, <1>6 DEF Countries

\* What a question about a payslip consists of.
LEMMA CasesAre ==
    ASSUME NEW pay \in Cases
    PROVE  /\ pay.country \in Countries /\ pay.unit \in Nat \ {0}
           /\ pay.frequency \in DOMAIN periodsPerYear /\ pay.member \in Members
BY DEF Cases

\* PayslipReconciles, of one payslip.
Reconciles(pay, slip) ==
  LET member == pay.member
      withheld == {i \in DOMAIN slip.lines :
                     slip.lines[i].code \notin {"basic", "unpaid_leave", "reimbursement"}}
      docked == IF member.unpaidDays = 0 THEN 0 ELSE UnpaidLeave(member, pay.frequency)
  IN /\ ~slip.failed
     /\ Cardinality(Codes(slip.lines)) = Len(slip.lines)
     /\ slip.gross = PeriodGross(member, pay.frequency) + member.claims
     /\ slip.net = slip.gross - docked - FoldFunctionOnSet(+, 0, Amounts(slip.lines), withheld)
     /\ \A i \in withheld : slip.lines[i].amount \in 0..slip.gross

\* Any payslip of any member adds up.
LEMMA PayslipAlwaysReconciles ==
    ASSUME NamesAreRead, NEW pay \in Cases
    PROVE  Reconciles(pay, PayslipOf(pay))
<1> DEFINE slip == PayslipOf(pay)
           member == pay.member
           gross == PeriodGross(member, pay.frequency) + member.claims
           docked == Docked(member, pay.frequency)
           w == Withheld(pay.country, pay.unit, pay.frequency, gross)
           withheld == {i \in DOMAIN slip.lines :
                          slip.lines[i].code \notin {"basic", "unpaid_leave", "reimbursement"}}
<1>1. /\ gross \in Nat /\ docked \in Nat /\ w \in Nat
      /\ slip.failed = FALSE /\ slip.gross = gross /\ slip.net = gross - (docked + w)
      /\ \E codes : Lists(slip.lines, codes, gross, docked, w, gross)
  BY CasesAre, PayslipIs DEF PayslipOf
<1> HIDE DEF slip, gross, docked, w
<1>2. PICK codes : Lists(slip.lines, codes, gross, docked, w, gross)
  BY <1>1
<1>3. /\ slip.lines \in Seq(SlipLines) /\ Codes(slip.lines) = codes
      /\ Cardinality(codes) = Len(slip.lines)
      /\ SumOf(slip.lines, Withholding) = w
      /\ \A i \in DOMAIN slip.lines : slip.lines[i].code \notin Own => slip.lines[i].amount \in 0..gross
  BY <1>2 DEF Lists
<1>4. withheld = Picked(slip.lines, Withholding)
  <2>1. \A i \in DOMAIN slip.lines : slip.lines[i] \in SlipLines
    <3> HIDE DEF SlipLines
    <3>1. DOMAIN slip.lines = 1..Len(slip.lines)
      BY <1>3, LenProperties
    <3> QED  BY <1>3, <3>1, ElementOfSeq
  <2> QED  BY <2>1 DEF Picked, Withholding, Own
<1>5. FoldFunctionOnSet(+, 0, Amounts(slip.lines), withheld) = w
  BY <1>3, <1>4 DEF SumOf, Sum
<1>6. \A i \in withheld : slip.lines[i].amount \in 0..slip.gross
  BY <1>1, <1>3 DEF Own
<1>7. slip.net = slip.gross - docked - FoldFunctionOnSet(+, 0, Amounts(slip.lines), withheld)
  <2>1. gross - (docked + w) = gross - docked - w
    BY <1>1
  <2> QED  BY <1>1, <1>5, <2>1
<1> QED  BY <1>1, <1>3, <1>6, <1>7 DEF Reconciles, slip, gross, docked, Docked

-----------------------------------------------------------------------------
(* A raise. *)

\* A quotient rounded up is no less than the quotient.
LEMMA CeilIsAbove ==
    ASSUME NEW a \in Nat, NEW b \in Nat \ {0}
    PROVE  /\ CeilOf(<<a, b>>) \in Nat /\ a <= b * CeilOf(<<a, b>>)
           /\ a = 0 => CeilOf(<<a, b>>) = 0
<1> DEFINE q == (-a) \div b
<1>1. CeilOf(<<a, b>>) = -q
  BY DEF CeilOf, FloorOf, Negate
<1>2. q \in Int /\ b * q <= -a /\ -a < b * q + b
  <2>1. -a \in Int
    OBVIOUS
  <2> QED  BY <2>1, Quotients
<1> HIDE DEF q
<1>3. b * (-q) = -(b * q) /\ b * q \in Int /\ b * 0 = 0
  BY <1>2
<1>4. ASSUME q >= 1 PROVE FALSE
  <2>1. b * 1 <= b * q /\ b * 1 = b
    BY <1>2, <1>4, ProductMonotone
  <2> QED  BY <1>2, <1>3, <2>1
<1>5. ASSUME a = 0, q <= -1 PROVE FALSE
  <2>1. b * q <= b * (-1) /\ b * (-1) = -b
    BY <1>2, <1>5, ProductMonotone
  <2> QED  BY <1>2, <1>3, <1>5, <2>1
<1> QED  BY <1>1, <1>2, <1>3, <1>4, <1>5

\* A raised case is a case, with more pay and the same everything else.
LEMMA RaisedIs ==
    ASSUME NEW pay \in Cases, NEW raise \in Nat
    PROVE  LET more == Raised(pay, raise)
               up == CeilOf(<<raise * periodsPerYear[pay.frequency],
                              periodsPerYear[pay.member.frequency]>>)
           IN /\ more \in Cases /\ more.country = pay.country /\ more.unit = pay.unit
              /\ more.frequency = pay.frequency /\ up \in Nat
              /\ more.member.amount = pay.member.amount + up
              /\ more.member.frequency = pay.member.frequency
              /\ more.member.unpaidDays = pay.member.unpaidDays
              /\ more.member.claims = pay.member.claims
              /\ raise * periodsPerYear[pay.frequency] <= periodsPerYear[pay.member.frequency] * up
              /\ raise = 0 => more = pay
<1> DEFINE m == pay.member
           q == periodsPerYear[pay.frequency]
           p == periodsPerYear[m.frequency]
           up == CeilOf(<<raise * q, p>>)
           dearer == [m EXCEPT !.amount = m.amount + up]
           more == Raised(pay, raise)
<1>1. /\ m \in Members /\ pay.frequency \in DOMAIN periodsPerYear
      /\ pay.country \in Countries /\ pay.unit \in Nat \ {0}
  BY CasesAre
<1>2. /\ m.amount \in Nat /\ m.frequency \in DOMAIN periodsPerYear
      /\ m.unpaidDays \in Nat /\ m.claims \in Nat
  BY <1>1 DEF Members
<1>3. q \in Nat \ {0} /\ p \in Nat \ {0}
  BY <1>1, <1>2 DEF periodsPerYear
<1>4. more = [pay EXCEPT !.member = dearer]
  BY DEF Raised
<1> HIDE DEF q, p, more
<1>5. up \in Nat /\ raise * q <= p * up /\ (raise = 0 => up = 0)
  <2>1. raise * q \in Nat /\ (raise = 0 => raise * q = 0)
    BY <1>3
  <2> QED  BY <1>3, <2>1, CeilIsAbove
<1> HIDE DEF up
<1>6. /\ dearer \in Members /\ dearer.amount = m.amount + up /\ dearer.frequency = m.frequency
      /\ dearer.unpaidDays = m.unpaidDays /\ dearer.claims = m.claims
  BY <1>1, <1>2, <1>5 DEF Members
<1>7. up = 0 => dearer = m
  BY <1>1, <1>2 DEF Members
<1> HIDE DEF dearer
<1>8. /\ more \in Cases /\ more.country = pay.country /\ more.unit = pay.unit
      /\ more.frequency = pay.frequency /\ more.member = dearer
  BY <1>4, <1>6 DEF Cases
<1>9. dearer = m => more = pay
  BY <1>4 DEF Cases
<1> QED  BY <1>5, <1>6, <1>7, <1>8, <1>9 DEF q, p, up, more

\* A raise brings at least itself in a period.
LEMMA PeriodGrossRises ==
    ASSUME NEW pay \in Cases, NEW raise \in Nat
    PROVE  PeriodGross(pay.member, pay.frequency) + raise
             <= PeriodGross(Raised(pay, raise).member, pay.frequency)
<1> DEFINE a == pay.member.amount
           q == periodsPerYear[pay.frequency]
           p == periodsPerYear[pay.member.frequency]
           up == CeilOf(<<raise * q, p>>)
           more == Raised(pay, raise)
<1>1. /\ pay.member \in Members /\ pay.frequency \in DOMAIN periodsPerYear
      /\ pay.member.frequency \in DOMAIN periodsPerYear /\ a \in Nat
  BY CasesAre DEF Members
<1>2. q \in Nat \ {0} /\ p \in Nat \ {0}
  BY <1>1 DEF periodsPerYear
<1>3. /\ up \in Nat /\ more.member.amount = a + up /\ more.member.frequency = pay.member.frequency
      /\ raise * q <= p * up
  BY RaisedIs
<1>4. /\ PeriodGross(pay.member, pay.frequency) = HalfUp(<<a * p, q>>)
      /\ PeriodGross(more.member, pay.frequency) = HalfUp(<<(a + up) * p, q>>)
  BY <1>3, RoundedIs DEF PeriodGross
<1> HIDE DEF a, q, p, up, more
<1>5. /\ a * p \in Nat /\ (a + up) * p \in Nat /\ a * p + q * raise <= (a + up) * p
  <2>1. (a + up) * p = a * p + p * up /\ q * raise = raise * q /\ a * p \in Nat /\ p * up \in Nat
    BY <1>1, <1>2, <1>3
  <2> QED  BY <1>2, <1>3, <2>1
<1>6. HalfUp(<<a * p, q>>) + raise <= HalfUp(<<(a + up) * p, q>>)
  BY <1>2, <1>5, WholeRise
<1> QED  BY <1>4, <1>6 DEF more

\* What unpaid days dock of a raise is their share of it, and less than one.
LEMMA DockRises ==
    ASSUME NEW frequency \in DOMAIN periodsPerYear, NEW member \in Members, NEW dearer \in Members,
           dearer.unpaidDays = member.unpaidDays,
           NEW rise \in Nat,
           PeriodGross(dearer, frequency) = PeriodGross(member, frequency) + rise
    PROVE  260 * (Docked(dearer, frequency) - Docked(member, frequency))
             < (member.unpaidDays * periodsPerYear[frequency]) * rise + 260
<1> DEFINE b == PeriodGross(member, frequency)
           d == member.unpaidDays
           q == periodsPerYear[frequency]
           c == d * q
           n == b * d * q
           m == (b + rise) * d * q
<1>1. b \in Nat /\ d \in Nat /\ q \in Nat \ {0}
  BY AmountsAreNat
<1>2. /\ UnpaidLeave(member, frequency) = HalfUp(<<n, 260>>)
      /\ UnpaidLeave(dearer, frequency) = HalfUp(<<m, 260>>)
  BY RoundedIs DEF UnpaidLeave, WORKING_DAYS_PER_YEAR
<1>3. /\ Docked(member, frequency) = IF d = 0 THEN 0 ELSE HalfUp(<<n, 260>>)
      /\ Docked(dearer, frequency) = IF d = 0 THEN 0 ELSE HalfUp(<<m, 260>>)
  BY <1>2 DEF Docked
<1> HIDE DEF b, d, q
<1>4. c \in Nat
  BY <1>1
<1>5. n = b * c /\ m = b * c + c * rise
  <2>1. b * d * q = b * (d * q) /\ (b + rise) * d * q = b * (d * q) + (d * q) * rise
    BY <1>1
  <2> QED  BY <2>1
<1> HIDE DEF c, n, m
<1>6. c * rise \in Nat /\ n \in Nat /\ m \in Nat /\ m = n + c * rise
  BY <1>1, <1>4, <1>5
<1>7. 260 * (HalfUp(<<m, 260>>) - HalfUp(<<n, 260>>)) < c * rise + 260
  <2> DEFINE one == 1
             k == 260
  <2>1. one \in Nat \ {0} /\ k \in Nat \ {0} /\ k * one = k /\ one * (c * rise) = c * rise
    BY <1>6
  <2>2. HalfUp(<<m, 260>>) = HalfUp(<<m, k>>) /\ HalfUp(<<n, 260>>) = HalfUp(<<n, k>>) /\ k = 260
    OBVIOUS
  <2> HIDE DEF one, k
  <2>3. m <= n + one * (c * rise)
    BY <1>6, <2>1
  <2>4. k * (HalfUp(<<m, k * one>>) - HalfUp(<<n, k * one>>)) < c * rise + k
    BY <1>4, <1>6, <2>1, <2>3, ShareRises
  <2> QED  BY <2>1, <2>2, <2>4
<1>8. 260 * (Docked(dearer, frequency) - Docked(member, frequency)) < c * rise + 260
  BY <1>3, <1>6, <1>7
<1> QED  BY <1>8 DEF c, d, q

\* The arithmetic of RaiseNeverCosts.
LEMMA RaiseBeatsIt ==
    ASSUME NEW rise \in Nat, rise >= 4, NEW days \in Nat, NEW t \in Nat, t = days * rise,
           rise * (115 - days) >= 676,
           NEW w \in Int, NEW d \in Int, 260 * d < t + 260,
           10000 * w < 5575 * rise + 25500 \/ 10000 * w < 4465 * rise + 30000
    PROVE  d + w <= rise
<1>1. 115 * rise - t >= 676
  <2>1. rise * (115 - days) = 115 * rise - days * rise
    OBVIOUS
  <2> QED  BY <2>1
<1> QED  BY <1>1

\* A raise that beats the rounding never costs, at any pay.
LEMMA RaiseAlwaysPays ==
    ASSUME NamesAreRead, NEW pay \in Cases, NEW raise \in Nat, BeatsRounding(raise, pay)
    PROVE  /\ PayslipOf(pay).gross <= PayslipOf(Raised(pay, raise)).gross
           /\ PayslipOf(pay).net <= PayslipOf(Raised(pay, raise)).net
<1> DEFINE more == Raised(pay, raise)
           f == pay.frequency
           m == pay.member
           dearer == more.member
           b == PeriodGross(m, f)
           rise == PeriodGross(dearer, f) - b
           days == m.unpaidDays * periodsPerYear[f]
           g == b + m.claims
           d == Docked(m, f)
           e == Docked(dearer, f)
           w == Withheld(pay.country, pay.unit, f, g)
           v == Withheld(pay.country, pay.unit, f, g + rise)
<1>1. /\ m \in Members /\ f \in DOMAIN periodsPerYear
      /\ pay.country \in Countries /\ pay.unit \in Nat \ {0}
  BY CasesAre
<1>2. /\ more \in Cases /\ more.country = pay.country /\ more.unit = pay.unit /\ more.frequency = f
      /\ dearer.unpaidDays = m.unpaidDays /\ dearer.claims = m.claims
  BY RaisedIs
<1> HIDE DEF more
<1>3. dearer \in Members
  BY <1>2, CasesAre
<1>4. b \in Nat /\ PeriodGross(dearer, f) \in Nat /\ m.claims \in Nat
      /\ m.unpaidDays \in Nat /\ periodsPerYear[f] \in Nat \ {0}
  BY <1>1, <1>3, AmountsAreNat
<1>5. b + raise <= PeriodGross(dearer, f)
  BY PeriodGrossRises DEF more
<1>6. rise \in Nat /\ raise <= rise /\ PeriodGross(dearer, f) = b + rise
  BY <1>4, <1>5
<1>7. raise >= 4 /\ raise * (115 - days) >= 676 /\ days \in Nat
  BY <1>4 DEF BeatsRounding
<1>8. /\ PayslipOf(pay).gross = g /\ PayslipOf(pay).net = g - (d + w)
      /\ g \in Nat /\ d \in Nat /\ w \in Nat
  BY <1>1, PayslipIs DEF PayslipOf
<1>9. /\ PayslipOf(more).gross = g + rise /\ PayslipOf(more).net = g + rise - (e + v)
      /\ e \in Nat /\ v \in Nat
  <2>1. PeriodGross(dearer, f) + dearer.claims = g + rise
    BY <1>2, <1>4, <1>6
  <2> DEFINE h == PeriodGross(dearer, f) + dearer.claims
  <2>2. PayslipOf(more) = MemberPayslip(pay.country, pay.unit, f, dearer)
    BY <1>2 DEF PayslipOf
  <2>3. /\ MemberPayslip(pay.country, pay.unit, f, dearer).gross = h
        /\ MemberPayslip(pay.country, pay.unit, f, dearer).net
             = h - (e + Withheld(pay.country, pay.unit, f, h))
        /\ e \in Nat /\ Withheld(pay.country, pay.unit, f, h) \in Nat
    BY <1>1, <1>3, PayslipIs
  <2>4. h = g + rise
    BY <2>1
  <2>5. /\ PayslipOf(more).gross = h
        /\ PayslipOf(more).net = h - (e + Withheld(pay.country, pay.unit, f, h))
    BY <2>2, <2>3
  <2>6. e \in Nat /\ Withheld(pay.country, pay.unit, f, h) \in Nat
    BY <2>3
  <2>7. g \in Nat /\ rise \in Nat
    BY <1>6, <1>8
  <2> HIDE DEF h, g, rise, e, f
  <2> QED  BY <2>4, <2>5, <2>6, <2>7
<1>10. 260 * (e - d) < days * rise + 260
  <2> HIDE DEF rise, dearer
  <2> QED  BY <1>1, <1>2, <1>3, <1>6, DockRises DEF dearer
<1> HIDE DEF b, rise, days, g, d, e, dearer, f, m
<1>11. rise >= 4 /\ rise * (115 - days) >= 676
  <2>1. ASSUME 115 - days <= 0 PROVE FALSE
    <3>1. raise * (115 - days) <= raise * 0 /\ raise * 0 = 0
      BY <1>7, <2>1, ProductMonotone
    <3>2. raise * (115 - days) \in Int
      BY <1>7
    <3> QED  BY <1>7, <3>1, <3>2
  <2>2. 115 - days \in Nat
    BY <1>7, <2>1
  <2> DEFINE k == 115 - days
  <2>3. k \in Nat /\ raise * k >= 676
    BY <1>7, <2>2
  <2> HIDE DEF k
  <2>4. k * raise <= k * rise
    BY <1>6, <2>3, ProductMonotone
  <2>5. raise * k = k * raise /\ rise * k = k * rise /\ k * raise \in Int /\ k * rise \in Int
    BY <1>6, <2>3
  <2>6. rise * k >= 676
    BY <2>3, <2>4, <2>5
  <2> QED  BY <1>6, <1>7, <2>6 DEF k
<1>12. \/ 10000 * (v - w) < 5575 * rise + 25500
       \/ 10000 * (v - w) < 4465 * rise + 30000
  BY <1>1, <1>6, <1>8, <1>11, WithheldRises
<1> HIDE DEF w, v
<1>13. (e - d) + (v - w) <= rise
  <2> DEFINE t == days * rise
  <2>1. t \in Nat /\ 260 * (e - d) < t + 260 /\ e - d \in Int /\ v - w \in Int
    BY <1>6, <1>7, <1>8, <1>9, <1>10
  <2> DEFINE x == e - d
             y == v - w
  <2>2. x \in Int /\ y \in Int /\ 260 * x < t + 260
        /\ (10000 * y < 5575 * rise + 25500 \/ 10000 * y < 4465 * rise + 30000)
    BY <1>12, <2>1
  <2>3. t = days * rise
    OBVIOUS
  <2> HIDE DEF x, y, t
  <2>4. x + y <= rise
    BY <1>6, <1>7, <1>11, <2>1, <2>2, <2>3, RaiseBeatsIt
  <2> QED  BY <2>4 DEF x, y
<1> QED  BY <1>6, <1>8, <1>9, <1>13 DEF more
-----------------------------------------------------------------------------
(* Organisation charts. *)

\* What toNode makes of one employee, and of all of whom few enough are left to be seen.
Node(managers, f, n) ==
  [c \in ChildrenOf(managers, n[1]) \ (n[2] \cup {n[1]}) |-> f[<<c, n[2] \cup {n[1]}>>]]
Left(managers, n) == DOMAIN managers \ (n[2] \cup {n[1]})
Asked(managers, k) ==
  {n \in (DOMAIN managers) \X SUBSET DOMAIN managers : Cardinality(Left(managers, n)) < k}
Charts(managers, f, D) == f = [n \in D |-> Node(managers, f, n)]
AllAsked(managers) == (DOMAIN managers) \X SUBSET DOMAIN managers

\* toNode is one of the functions with these values.
LEMMA ToNodeIsChosen ==
    ASSUME NEW managers
    PROVE  toNode(managers) = CHOOSE f : Charts(managers, f, AllAsked(managers))
BY DEF toNode, Charts, AllAsked, Node

\* Whoever is asked for next leaves fewer to be seen.
LEMMA FewerLeft ==
    ASSUME NEW managers, IsFiniteSet(DOMAIN managers), NEW k \in Nat,
           NEW n \in Asked(managers, k + 1),
           NEW c \in ChildrenOf(managers, n[1]) \ (n[2] \cup {n[1]})
    PROVE  <<c, n[2] \cup {n[1]}>> \in Asked(managers, k)
<1> DEFINE seen == n[2] \cup {n[1]}
           next == <<c, seen>>
           A == Left(managers, n)
           B == Left(managers, next)
<1>1. c \in DOMAIN managers /\ seen \in SUBSET DOMAIN managers /\ c \notin seen
  BY DEF ChildrenOf, Asked
<1>2. next \in (DOMAIN managers) \X SUBSET DOMAIN managers
  BY <1>1
<1>3. A = DOMAIN managers \ seen
  BY DEF Left
<1>4. next[1] = c /\ next[2] = seen
  OBVIOUS
<1> HIDE DEF next
<1>5. B = A \ {c} /\ c \in A
  BY <1>1, <1>3, <1>4 DEF Left
<1>6. IsFiniteSet(A) /\ Cardinality(A) < k + 1
  <2>1. A \subseteq DOMAIN managers
    BY <1>3
  <2> QED  BY <2>1, FS_Subset DEF Asked
<1> HIDE DEF A, B, seen
<1>7. Cardinality(B) = Cardinality(A) - 1 /\ Cardinality(A) \in Nat
  BY <1>5, <1>6, FS_RemoveElement, FS_CardinalityType
<1>8. Cardinality(B) < k
  BY <1>6, <1>7
<1> QED  BY <1>2, <1>8 DEF Asked, B, next, seen

\* There is one for those of whom fewer than one more are left, if there is one for fewer.
LEMMA ChartsGrow ==
    ASSUME NEW managers, IsFiniteSet(DOMAIN managers), NEW k \in Nat,
           \E f : Charts(managers, f, Asked(managers, k))
    PROVE  \E f : Charts(managers, f, Asked(managers, k + 1))
<1>1. PICK f : Charts(managers, f, Asked(managers, k))
  OBVIOUS
<1> DEFINE D == Asked(managers, k)
           M == Asked(managers, k + 1)
           g == [n \in M |-> Node(managers, f, n)]
<1>2. D \subseteq M
  <2>1. ASSUME NEW n \in D PROVE n \in M
    <3>1. /\ n \in (DOMAIN managers) \X SUBSET DOMAIN managers
          /\ Cardinality(Left(managers, n)) < k
      BY DEF Asked
    <3>2. Left(managers, n) \subseteq DOMAIN managers
      BY DEF Left
    <3>3. Cardinality(Left(managers, n)) \in Nat
      BY <3>2, FS_Subset, FS_CardinalityType
    <3>4. Cardinality(Left(managers, n)) < k + 1
      BY <3>1, <3>3
    <3> QED  BY <3>1, <3>4 DEF Asked
  <2> QED  BY <2>1
<1>3. ASSUME NEW n \in D PROVE g[n] = f[n]
  <2>1. f[n] = Node(managers, f, n)
    BY <1>1 DEF Charts
  <2> QED  BY <1>2, <2>1
<1>4. ASSUME NEW n \in M PROVE Node(managers, f, n) = Node(managers, g, n)
  <2>1. ASSUME NEW c \in ChildrenOf(managers, n[1]) \ (n[2] \cup {n[1]})
        PROVE  f[<<c, n[2] \cup {n[1]}>>] = g[<<c, n[2] \cup {n[1]}>>]
    <3>1. <<c, n[2] \cup {n[1]}>> \in D
      BY <2>1, FewerLeft
    <3> HIDE DEF D, g
    <3> QED  BY <3>1, <1>3
  <2> HIDE DEF g
  <2> QED  BY <2>1 DEF Node
<1>5. g = [n \in M |-> Node(managers, g, n)]
  <2> DEFINE a(n) == Node(managers, f, n)
             b(n) == Node(managers, g, n)
  <2>1. g = [n \in M |-> a(n)]
    OBVIOUS
  <2>2. \A n \in M : a(n) = b(n)
    BY <1>4
  <2> HIDE DEF g, a, b, M
  <2>3. g = [n \in M |-> b(n)]
    BY <2>1, <2>2
  <2> QED  BY <2>3 DEF b
<1> HIDE DEF g
<1> QED  BY <1>5 DEF Charts, M

\* Hence there is one for everybody: toNode ends, whatever the managers.
LEMMA ChartsExist ==
    ASSUME NEW managers, IsFiniteSet(DOMAIN managers)
    PROVE  Charts(managers, toNode(managers), AllAsked(managers))
<1> DEFINE T == {k \in Nat : ~\E f : Charts(managers, f, Asked(managers, k))}
           most == Cardinality(DOMAIN managers) + 1
<1>1. T = {}
  <2> SUFFICES ASSUME T # {} PROVE FALSE
    OBVIOUS
  <2>1. PICK k \in T : \A j \in T : k <= j
    <3>1. T \subseteq Nat
      OBVIOUS
    <3> HIDE DEF T
    <3> QED  BY <3>1, LeastNatural
  <2>2. k # 0
    <3> SUFFICES ASSUME k = 0 PROVE FALSE
      OBVIOUS
    <3>1. ASSUME NEW n \in Asked(managers, 0) PROVE FALSE
      <4>1. Left(managers, n) \subseteq DOMAIN managers
        BY DEF Left
      <4>2. Cardinality(Left(managers, n)) \in Nat
        BY <4>1, FS_Subset, FS_CardinalityType
      <4> QED  BY <4>2 DEF Asked
    <3>2. Asked(managers, 0) = {}
      BY <3>1
    <3> DEFINE e == [n \in {} |-> n]
    <3>3. e = [n \in {} |-> Node(managers, e, n)]
      OBVIOUS
    <3> HIDE DEF e
    <3>4. Charts(managers, e, Asked(managers, 0))
      BY <3>2, <3>3 DEF Charts
    <3> QED  BY <3>4
  <2>3. k - 1 \in Nat /\ k - 1 \notin T /\ (k - 1) + 1 = k
    BY <2>1, <2>2
  <2>4. \E f : Charts(managers, f, Asked(managers, (k - 1) + 1))
    BY <2>3, ChartsGrow
  <2> QED  BY <2>3, <2>4
<1>2. most \in Nat
  BY FS_CardinalityType
<1>3. Asked(managers, most) = AllAsked(managers)
  <2>1. ASSUME NEW n \in AllAsked(managers) PROVE n \in Asked(managers, most)
    <3>1. Left(managers, n) \subseteq DOMAIN managers
      BY DEF Left
    <3>2. /\ Cardinality(Left(managers, n)) \in Nat /\ Cardinality(DOMAIN managers) \in Nat
          /\ Cardinality(Left(managers, n)) <= Cardinality(DOMAIN managers)
      BY <3>1, FS_Subset, FS_CardinalityType
    <3>3. Cardinality(Left(managers, n)) < most
      BY <3>2
    <3> HIDE DEF most
    <3> QED  BY <3>3 DEF Asked, AllAsked
  <2> QED  BY <2>1 DEF Asked, AllAsked
<1>4. \E f : Charts(managers, f, AllAsked(managers))
  BY <1>1, <1>2, <1>3
<1>5. Charts(managers, CHOOSE f : Charts(managers, f, AllAsked(managers)), AllAsked(managers))
  BY <1>4, Zenon
<1> QED  BY <1>5, ToNodeIsChosen

\* The places one below a place, and the levels that such steps lead to.
PlacesBelow(p) == {[line |-> Append(p.line, e), reports |-> p.reports[e]] : e \in DOMAIN p.reports}
Level(tree, f, n) ==
  IF n = 0 THEN {[line |-> <<Nobody>>, reports |-> tree]} ELSE UNION {PlacesBelow(p) : p \in f[n - 1]}
Leveled(tree, f, k) == f = [n \in 0..k |-> Level(tree, f, n)]

\* The levels of a tree are one of the functions with these values.
LEMMA LevelsIsChosen ==
    ASSUME NEW tree, NEW depth
    PROVE  Levels(tree, depth) = CHOOSE f : Leveled(tree, f, depth)
BY DEF Levels, Leveled, Level, PlacesBelow

\* There is one, for any tree and any depth.
LEMMA LevelsExist ==
    ASSUME NEW tree, NEW depth \in Nat
    PROVE  Leveled(tree, Levels(tree, depth), depth)
<1> DEFINE T == {k \in Nat : ~\E f : Leveled(tree, f, k)}
<1>1. T = {}
  <2> SUFFICES ASSUME T # {} PROVE FALSE
    OBVIOUS
  <2>1. PICK k \in T : \A j \in T : k <= j
    <3>1. T \subseteq Nat
      OBVIOUS
    <3> HIDE DEF T
    <3> QED  BY <3>1, LeastNatural
  <2>2. \E f : \A n \in 0..(k - 1) : f[n] = Level(tree, f, n)
    <3>1. CASE k = 0
      BY <3>1
    <3>2. CASE k # 0
      <4>1. k - 1 \in Nat /\ k - 1 \notin T
        BY <2>1, <3>2
      <4>2. PICK f : Leveled(tree, f, k - 1)
        BY <4>1
      <4>3. \A n \in 0..(k - 1) : f[n] = Level(tree, f, n)
        BY <4>2 DEF Leveled
      <4> QED  BY <4>3
    <3> QED  BY <3>1, <3>2
  <2>3. PICK f : \A n \in 0..(k - 1) : f[n] = Level(tree, f, n)
    BY <2>2
  <2> DEFINE g == [n \in 0..k |-> Level(tree, f, n)]
  <2>4. ASSUME NEW n \in 0..k PROVE Level(tree, f, n) = Level(tree, g, n)
    <3>1. CASE n = 0
      BY <3>1 DEF Level
    <3>2. CASE n # 0
      <4>1. n - 1 \in 0..(k - 1) /\ n - 1 \in 0..k
        BY <3>2
      <4>2. f[n - 1] = g[n - 1]
        BY <2>3, <4>1
      <4> HIDE DEF g
      <4> QED  BY <3>2, <4>2 DEF Level
    <3> QED  BY <3>1, <3>2
  <2>5. g = [n \in 0..k |-> Level(tree, g, n)]
    <3> DEFINE a(n) == Level(tree, f, n)
               b(n) == Level(tree, g, n)
    <3>1. g = [n \in 0..k |-> a(n)]
      OBVIOUS
    <3>2. \A n \in 0..k : a(n) = b(n)
      BY <2>4
    <3> HIDE DEF g, a, b
    <3>3. g = [n \in 0..k |-> b(n)]
      BY <3>1, <3>2
    <3> QED  BY <3>3 DEF b
  <2> HIDE DEF g
  <2>6. Leveled(tree, g, k)
    BY <2>5 DEF Leveled
  <2> QED  BY <2>6
<1>2. \E f : Leveled(tree, f, depth)
  BY <1>1
<1>3. Leveled(tree, CHOOSE f : Leveled(tree, f, depth), depth)
  BY <1>2, Zenon
<1> QED  BY <1>3, LevelsIsChosen

-----------------------------------------------------------------------------
(* The places of the chart of some employees. *)

Chart(managers) == Levels(buildTree(managers), Cardinality(DOMAIN managers))
End(line) == line[Len(line)]
On(line) == {line[k] : k \in 2..Len(line)}

\* Who has a place in the chart.
Seated(managers) ==
  {e \in DOMAIN managers :
     \E n \in 1..Cardinality(DOMAIN managers) : \E p \in Chart(managers)[n] : End(p.line) = e}

\* A place at the n-th level: n employees on its line, all of them seated, the last of whom has
\* an end to the line of managers; who reports to the last is who names him and is not on the line.
SeatOf(managers, n, p) ==
  /\ p.line \in Seq((DOMAIN managers) \cup {Nobody}) /\ Len(p.line) = n + 1
  /\ On(p.line) \subseteq Seated(managers) /\ Cardinality(On(p.line)) = n
  /\ DOMAIN p.reports = ChildrenOf(managers, End(p.line)) \ On(p.line)
  /\ \A c \in DOMAIN p.reports : p.reports[c] = toNode(managers)[<<c, On(p.line)>>]
  /\ n = 0 => p.line = <<Nobody>>
  /\ n > 0 => /\ End(p.line) \in On(p.line) /\ ChainEnds(managers, End(p.line))
              /\ p.line[n] = Parent(managers, End(p.line))

Company(managers) == IsFiniteSet(DOMAIN managers) /\ Nobody \notin DOMAIN managers

\* The levels of a chart, the top one and each from the one above.
LEMMA ChartLevels ==
    ASSUME NEW managers, Company(managers)
    PROVE  LET depth == Cardinality(DOMAIN managers)
           IN /\ depth \in Nat
              /\ Chart(managers)[0] = {[line |-> <<Nobody>>, reports |-> buildTree(managers)]}
              /\ \A n \in 1..depth : /\ n - 1 \in 0..depth
                                     /\ Chart(managers)[n] = UNION {PlacesBelow(p) : p \in Chart(managers)[n - 1]}
<1> DEFINE depth == Cardinality(DOMAIN managers)
           f == Chart(managers)
           tree == buildTree(managers)
<1>1. depth \in Nat
  BY FS_CardinalityType DEF Company
<1>2. Leveled(tree, f, depth)
  BY <1>1, LevelsExist DEF Chart
<1> HIDE DEF depth, f, tree
<1>3. \A n \in 0..depth : f[n] = Level(tree, f, n)
  BY <1>2 DEF Leveled
<1>4. f[0] = Level(tree, f, 0)
  BY <1>1, <1>3
<1>5. \A n \in 1..depth : n - 1 \in 0..depth /\ f[n] = Level(tree, f, n) /\ n # 0
  BY <1>1, <1>3
<1> QED  BY <1>1, <1>4, <1>5 DEF Level, depth, f, tree

\* One employee more at the end of a line.
LEMMA AppendedLine ==
    ASSUME NEW S, NEW line \in Seq(S), NEW n \in Nat, Len(line) = n + 1, NEW c \in S
    PROVE  LET longer == Append(line, c)
           IN /\ longer \in Seq(S) /\ Len(longer) = n + 2
              /\ End(longer) = c /\ longer[n + 1] = End(line)
              /\ On(longer) = On(line) \cup {c}
<1> DEFINE longer == Append(line, c)
<1>1. /\ longer \in Seq(S) /\ Len(longer) = n + 2 /\ longer[n + 2] = c
      /\ \A i \in 1..(n + 1) : longer[i] = line[i]
  <2>1. /\ longer \in Seq(S) /\ Len(longer) = Len(line) + 1 /\ longer[Len(line) + 1] = c
        /\ \A i \in 1..Len(line) : longer[i] = line[i]
    BY AppendProperties
  <2> HIDE DEF longer
  <2>2. Len(line) + 1 = n + 2
    OBVIOUS
  <2> QED  BY <2>1, <2>2
<1> HIDE DEF longer
<1>2. End(longer) = c
  BY <1>1 DEF End
<1>3. longer[n + 1] = End(line)
  BY <1>1 DEF End
<1>4. On(longer) = On(line) \cup {c}
  <2>1. 2..(n + 2) = (2..(n + 1)) \cup {n + 2}
    OBVIOUS
  <2>2. \A i \in 2..(n + 1) : longer[i] = line[i]
    BY <1>1
  <2>3. On(longer) = {longer[i] : i \in 2..(n + 2)} /\ On(line) = {line[i] : i \in 2..(n + 1)}
    BY <1>1 DEF On
  <2> QED  BY <1>1, <2>1, <2>2, <2>3
<1> QED  BY <1>1, <1>2, <1>3, <1>4 DEF longer

\* The place above everybody.
LEMMA TopPlace ==
    ASSUME NEW managers, Company(managers), NEW p \in Chart(managers)[0]
    PROVE  SeatOf(managers, 0, p)
<1>1. p = [line |-> <<Nobody>>, reports |-> buildTree(managers)]
  BY ChartLevels
<1>2. p.line = <<Nobody>> /\ p.reports = buildTree(managers)
  BY <1>1
<1>3. On(p.line) = {} /\ End(p.line) = Nobody /\ Len(p.line) = 1
  BY <1>2 DEF On, End
<1>4. Cardinality(On(p.line)) = 0
  BY <1>3, FS_EmptySet
<1>5. /\ DOMAIN p.reports = ChildrenOf(managers, Nobody)
      /\ \A c \in DOMAIN p.reports : p.reports[c] = toNode(managers)[<<c, {}>>]
  BY <1>2 DEF buildTree
<1>6. p.line \in Seq((DOMAIN managers) \cup {Nobody})
  BY <1>2
<1> QED  BY <1>2, <1>3, <1>4, <1>5, <1>6 DEF SeatOf

\* Who reports to nobody, or to an end of the line, has an end to the line of managers.
LEMMA ReportsToIt ==
    ASSUME NEW managers, Company(managers), NEW e \in DOMAIN managers,
           Parent(managers, e) = Nobody \/ ChainEnds(managers, Parent(managers, e))
    PROVE  ChainEnds(managers, e)
<1> SUFFICES ASSUME NEW group \in SUBSET DOMAIN managers, e \in group,
                    \A x \in group : managers[x] \in group
             PROVE  FALSE
  BY DEF ChainEnds
<1>1. managers[e] \in group /\ managers[e] \in DOMAIN managers
  OBVIOUS
<1>2. Parent(managers, e) = managers[e] /\ Parent(managers, e) # Nobody
  BY <1>1 DEF Parent, Company
<1> QED  BY <1>1, <1>2 DEF ChainEnds

\* A place below a place.
LEMMA NextPlace ==
    ASSUME NEW managers, Company(managers), NEW n \in 1..Cardinality(DOMAIN managers),
           NEW q \in Chart(managers)[n - 1], SeatOf(managers, n - 1, q), NEW c \in DOMAIN q.reports,
           NEW p, p = [line |-> Append(q.line, c), reports |-> q.reports[c]]
    PROVE  SeatOf(managers, n, p)
<1> DEFINE E == DOMAIN managers
           on == On(q.line)
           depth == Cardinality(E)
<1>1. depth \in Nat /\ p \in Chart(managers)[n]
  <2>1. p \in PlacesBelow(q)
    BY DEF PlacesBelow
  <2> QED  BY <2>1, ChartLevels
<1>2. /\ q.line \in Seq(E \cup {Nobody}) /\ Len(q.line) = n
      /\ on \subseteq Seated(managers) /\ Cardinality(on) = n - 1
      /\ DOMAIN q.reports = ChildrenOf(managers, End(q.line)) \ on
      /\ q.reports[c] = toNode(managers)[<<c, on>>]
      /\ n - 1 = 0 => q.line = <<Nobody>>
      /\ n - 1 > 0 => ChainEnds(managers, End(q.line))
  <2> DEFINE m == n - 1
  <2>1. /\ q.line \in Seq(E \cup {Nobody}) /\ Len(q.line) = m + 1
        /\ on \subseteq Seated(managers) /\ Cardinality(on) = m
        /\ DOMAIN q.reports = ChildrenOf(managers, End(q.line)) \ on
        /\ q.reports[c] = toNode(managers)[<<c, on>>]
        /\ m = 0 => q.line = <<Nobody>>
        /\ m > 0 => ChainEnds(managers, End(q.line))
    <3> HIDE DEF m
    <3>1. SeatOf(managers, m, q)
      BY DEF m
    <3> QED  BY <3>1 DEF SeatOf
  <2>2. (n - 1) + 1 = n
    BY <1>1
  <2> QED  BY <2>1, <2>2
<1>3. c \in E /\ c \notin on /\ Parent(managers, c) = End(q.line)
  BY <1>2 DEF ChildrenOf
<1>4. /\ p.line \in Seq(E \cup {Nobody}) /\ Len(p.line) = n + 1
      /\ End(p.line) = c /\ p.line[n] = End(q.line) /\ On(p.line) = on \cup {c}
  <2>1. n - 1 \in Nat /\ Len(q.line) = (n - 1) + 1 /\ (n - 1) + 2 = n + 1 /\ (n - 1) + 1 = n
        /\ c \in E \cup {Nobody} /\ p.line = Append(q.line, c)
    BY <1>1, <1>2, <1>3
  <2> DEFINE m == n - 1
             S == E \cup {Nobody}
  <2>2. m \in Nat /\ q.line \in Seq(S) /\ Len(q.line) = m + 1 /\ c \in S
    BY <1>2, <2>1
  <2> HIDE DEF m, S
  <2>3. LET longer == Append(q.line, c)
        IN /\ longer \in Seq(S) /\ Len(longer) = m + 2
           /\ End(longer) = c /\ longer[m + 1] = End(q.line)
           /\ On(longer) = On(q.line) \cup {c}
    BY <2>2, AppendedLine
  <2>4. m + 2 = n + 1 /\ m + 1 = n
    BY <2>1 DEF m
  <2> QED  BY <2>1, <2>3, <2>4 DEF S
<1>5. on \subseteq E /\ IsFiniteSet(on)
  BY <1>2, FS_Subset DEF Seated, Company
<1>6. Cardinality(On(p.line)) = n
  <2> HIDE DEF on
  <2>1. Cardinality(on \cup {c}) = Cardinality(on) + 1
    BY <1>3, <1>5, FS_AddElement
  <2>2. (n - 1) + 1 = n
    BY <1>1
  <2> QED  BY <1>2, <1>4, <2>1, <2>2
<1>7. On(p.line) \subseteq Seated(managers)
  BY <1>1, <1>2, <1>3, <1>4 DEF Seated
<1>8. p.reports = Node(managers, toNode(managers), <<c, on>>)
  <2>1. <<c, on>> \in AllAsked(managers)
    BY <1>3, <1>5 DEF AllAsked
  <2>2. toNode(managers)[<<c, on>>] = Node(managers, toNode(managers), <<c, on>>)
    BY <2>1, ChartsExist DEF Charts, Company
  <2> QED  BY <1>2, <2>2
<1>9. /\ DOMAIN p.reports = ChildrenOf(managers, End(p.line)) \ On(p.line)
      /\ \A d \in DOMAIN p.reports : p.reports[d] = toNode(managers)[<<d, On(p.line)>>]
  <2>1. <<c, on>>[1] = c /\ <<c, on>>[2] = on
    OBVIOUS
  <2> QED  BY <1>4, <1>8, <2>1 DEF Node
<1>10. ChainEnds(managers, c)
  <2>1. CASE n = 1
    <3>1. End(q.line) = Nobody
      BY <1>2, <2>1 DEF End
    <3> QED  BY <1>3, <3>1, ReportsToIt
  <2>2. CASE n # 1
    BY <1>1, <1>2, <1>3, <2>2, ReportsToIt
  <2> QED  BY <2>1, <2>2
<1> QED  BY <1>1, <1>3, <1>4, <1>6, <1>7, <1>9, <1>10 DEF SeatOf

\* All places of a chart are such places.
LEMMA EveryPlace ==
    ASSUME NEW managers, Company(managers)
    PROVE  \A n \in 0..Cardinality(DOMAIN managers) : \A p \in Chart(managers)[n] : SeatOf(managers, n, p)
<1> DEFINE depth == Cardinality(DOMAIN managers)
           T == {n \in 0..depth : \E p \in Chart(managers)[n] : ~SeatOf(managers, n, p)}
<1> SUFFICES ASSUME T # {} PROVE FALSE
  OBVIOUS
<1>0. depth \in Nat
  BY ChartLevels
<1>1. PICK n \in T : \A k \in T : n <= k
  <2>1. T \subseteq Nat
    BY <1>0
  <2> HIDE DEF T
  <2> QED  BY <2>1, LeastNatural
<1>2. PICK p \in Chart(managers)[n] : ~SeatOf(managers, n, p)
  OBVIOUS
<1>3. n # 0
  BY <1>2, TopPlace
<1>4. n \in 1..depth /\ n - 1 \in 0..depth /\ n - 1 \notin T
  BY <1>0, <1>1, <1>3
<1>5. PICK q \in Chart(managers)[n - 1] : p \in PlacesBelow(q)
  BY <1>2, <1>4, ChartLevels
<1>6. PICK c \in DOMAIN q.reports : p = [line |-> Append(q.line, c), reports |-> q.reports[c]]
  BY <1>5 DEF PlacesBelow
<1>7. SeatOf(managers, n - 1, q)
  BY <1>4, <1>5
<1>8. SeatOf(managers, n, p)
  BY <1>4, <1>5, <1>6, <1>7, NextPlace
<1> QED  BY <1>2, <1>8

\* Whose line of managers ends has a place: the others would be a group that nobody leaves.
LEMMA EverybodySeated ==
    ASSUME NEW managers, Company(managers), NEW e \in DOMAIN managers, ChainEnds(managers, e)
    PROVE  e \in Seated(managers)
<1> DEFINE E == DOMAIN managers
           depth == Cardinality(E)
           group == E \ Seated(managers)
<1>0. depth \in Nat
  BY ChartLevels
<1>1. ASSUME NEW n \in 0..depth, NEW p \in Chart(managers)[n], NEW x \in group,
             Parent(managers, x) = End(p.line)
      PROVE  FALSE
  <2>1. SeatOf(managers, n, p)
    BY EveryPlace
  <2>2. x \notin On(p.line) /\ x \in DOMAIN p.reports /\ On(p.line) \subseteq E
        /\ Cardinality(On(p.line)) = n
    BY <1>1, <2>1 DEF SeatOf, ChildrenOf, Seated
  <2>3. n + 1 \in 1..depth
    <3>1. IsFiniteSet(On(p.line)) /\ IsFiniteSet(E)
      BY <2>2, FS_Subset DEF Company
    <3>2. Cardinality(On(p.line) \cup {x}) = n + 1
      BY <2>2, <3>1, FS_AddElement
    <3>3. Cardinality(On(p.line) \cup {x}) <= depth
      <4>1. On(p.line) \cup {x} \subseteq E
        BY <2>2
      <4> QED  BY <3>1, <4>1, FS_Subset
    <3> QED  BY <1>0, <3>2, <3>3
  <2> DEFINE q == [line |-> Append(p.line, x), reports |-> p.reports[x]]
  <2>4. q \in Chart(managers)[n + 1]
    <3>1. q \in PlacesBelow(p)
      BY <2>2 DEF PlacesBelow
    <3>2. (n + 1) - 1 = n
      BY <1>0
    <3> HIDE DEF q
    <3> QED  BY <2>3, <3>1, <3>2, ChartLevels
  <2>5. End(q.line) = x
    <3>1. p.line \in Seq(E \cup {Nobody}) /\ Len(p.line) = n + 1 /\ n \in Nat
      BY <1>0, <2>1 DEF SeatOf
    <3>2. x \in E \cup {Nobody}
      OBVIOUS
    <3> QED  BY <3>1, <3>2, AppendedLine
  <2> HIDE DEF q
  <2>6. x \in Seated(managers)
    BY <2>3, <2>4, <2>5 DEF Seated
  <2> QED  BY <2>6
<1>2. ASSUME NEW x \in group PROVE managers[x] \in group
  <2>1. CASE managers[x] \notin E
    <3>1. Parent(managers, x) = Nobody
      BY <2>1 DEF Parent
    <3> DEFINE top == [line |-> <<Nobody>>, reports |-> buildTree(managers)]
    <3>2. top \in Chart(managers)[0] /\ End(top.line) = Nobody
      BY ChartLevels DEF End
    <3> HIDE DEF top
    <3>3. 0 \in 0..depth
      BY <1>0
    <3> QED  BY <1>1, <3>1, <3>2, <3>3
  <2>2. CASE managers[x] \in E
    <3>1. SUFFICES ASSUME managers[x] \in Seated(managers) PROVE FALSE
      BY <2>2
    <3>2. PICK n \in 1..depth : \E p \in Chart(managers)[n] : End(p.line) = managers[x]
      BY <3>1 DEF Seated
    <3>3. PICK p \in Chart(managers)[n] : End(p.line) = managers[x]
      BY <3>2
    <3>4. Parent(managers, x) = End(p.line) /\ n \in 0..depth
      BY <1>0, <2>2, <3>3 DEF Parent
    <3> QED  BY <1>1, <3>3, <3>4
  <2> QED  BY <2>1, <2>2
<1>3. e \notin group
  BY <1>2 DEF ChainEnds
<1> QED  BY <1>3

\* The line to an employee is that to whom the employee reports, and the employee.
LEMMA LineTo ==
    ASSUME NEW managers, Company(managers), NEW n \in 1..Cardinality(DOMAIN managers),
           NEW p \in Chart(managers)[n]
    PROVE  /\ End(p.line) \in DOMAIN managers /\ ChainEnds(managers, End(p.line))
           /\ Len(p.line) = n + 1 /\ p.line[n] = Parent(managers, End(p.line))
           /\ \E q \in Chart(managers)[n - 1] :
                /\ p.line = Append(q.line, End(p.line))
                /\ End(q.line) = Parent(managers, End(p.line))
<1> DEFINE E == DOMAIN managers
           depth == Cardinality(E)
<1>0. depth \in Nat /\ n \in 0..depth /\ n - 1 \in 0..depth /\ n > 0
  BY ChartLevels
<1>1. SeatOf(managers, n, p)
  BY <1>0, EveryPlace
<1>2. PICK q \in Chart(managers)[n - 1] : p \in PlacesBelow(q)
  BY ChartLevels
<1>3. PICK c \in DOMAIN q.reports : p = [line |-> Append(q.line, c), reports |-> q.reports[c]]
  BY <1>2 DEF PlacesBelow
<1>4. SeatOf(managers, n - 1, q)
  BY <1>0, EveryPlace
<1>5. c \in E /\ Parent(managers, c) = End(q.line) /\ p.line = Append(q.line, c)
  BY <1>3, <1>4 DEF SeatOf, ChildrenOf
<1>6. End(p.line) = c
  <2> DEFINE m == n - 1
             S == E \cup {Nobody}
  <2>1. m \in Nat /\ q.line \in Seq(S) /\ Len(q.line) = m + 1 /\ c \in S
    BY <1>0, <1>4, <1>5 DEF SeatOf
  <2> HIDE DEF m, S
  <2>2. End(Append(q.line, c)) = c
    BY <2>1, AppendedLine
  <2> QED  BY <1>5, <2>2
<1> QED  BY <1>0, <1>1, <1>2, <1>5, <1>6 DEF SeatOf

\* There is one line to an employee: where two first part, the ends below them differ too.
LEMMA OneLine ==
    ASSUME NEW managers, Company(managers)
    PROVE  \A n, m \in 1..Cardinality(DOMAIN managers) :
             \A p \in Chart(managers)[n], q \in Chart(managers)[m] :
               End(p.line) = End(q.line) => p.line = q.line
<1> DEFINE E == DOMAIN managers
           depth == Cardinality(E)
           T == {n \in 1..depth : \E m \in 1..depth : \E p \in Chart(managers)[n], q \in Chart(managers)[m] :
                   End(p.line) = End(q.line) /\ p.line # q.line}
<1> SUFFICES ASSUME T # {} PROVE FALSE
  OBVIOUS
<1>0. depth \in Nat /\ Nobody \notin E
  BY ChartLevels DEF Company
<1>1. PICK n \in T : \A k \in T : n <= k
  <2>1. T \subseteq Nat
    BY <1>0
  <2> HIDE DEF T
  <2> QED  BY <2>1, LeastNatural
<1>a. PICK m \in 1..depth : \E p \in Chart(managers)[n], q \in Chart(managers)[m] :
        End(p.line) = End(q.line) /\ p.line # q.line
  OBVIOUS
<1>2. PICK p \in Chart(managers)[n], q \in Chart(managers)[m] :
        End(p.line) = End(q.line) /\ p.line # q.line
  BY <1>a
<1>3. n \in 1..depth
  OBVIOUS
<1>4. PICK up \in Chart(managers)[n - 1] :
        /\ p.line = Append(up.line, End(p.line))
        /\ End(up.line) = Parent(managers, End(p.line))
  BY <1>2, <1>3, LineTo
<1>5. PICK above \in Chart(managers)[m - 1] :
        /\ q.line = Append(above.line, End(q.line))
        /\ End(above.line) = Parent(managers, End(q.line))
  BY <1>2, LineTo
<1>6. End(up.line) = End(above.line) /\ up.line # above.line
  BY <1>2, <1>4, <1>5
<1>7. ASSUME NEW k \in 1..depth, NEW r \in Chart(managers)[k - 1]
      PROVE  \/ k - 1 = 0 /\ r.line = <<Nobody>> /\ End(r.line) = Nobody
             \/ k - 1 \in 1..depth /\ End(r.line) # Nobody
  <2>1. CASE k = 1
    <3>1. r \in Chart(managers)[0]
      BY <2>1
    <3>2. r.line = <<Nobody>>
      BY <3>1, ChartLevels
    <3> QED  BY <2>1, <3>2 DEF End
  <2>2. CASE k # 1
    <3>1. k - 1 \in 1..depth
      BY <1>0, <2>2
    <3> QED  BY <1>0, <3>1, LineTo
  <2> QED  BY <2>1, <2>2
<1>8. n - 1 \in 1..depth /\ m - 1 \in 1..depth
  BY <1>2, <1>3, <1>6, <1>7
<1>9. n - 1 \in T
  BY <1>6, <1>8
<1> QED  BY <1>0, <1>1, <1>3, <1>9

\* The lines of the people in the chart.
LEMMA LinesAre ==
    ASSUME NEW managers, Company(managers)
    PROVE  \A line : line \in Lines(buildTree(managers), DOMAIN managers)
             <=> \E n \in 1..Cardinality(DOMAIN managers) : \E p \in Chart(managers)[n] : p.line = line
BY DEF Lines, Chart

\* The chart of any company shows everybody once.
LEMMA EverybodyShownOnce ==
    ASSUME NEW managers, Company(managers)
    PROVE  ShowsEverybodyOnce(managers, buildTree(managers))
<1> DEFINE E == DOMAIN managers
           depth == Cardinality(E)
           lines == Lines(buildTree(managers), E)
           shown == {<<End(line), line[Len(line) - 1]>> : line \in lines}
           meant == {<<e, Parent(managers, e)>> : e \in {x \in E : ChainEnds(managers, x)}}
<1>1. ASSUME NEW line \in lines, NEW other \in lines, End(line) = End(other) PROVE line = other
  BY <1>1, LinesAre, OneLine
<1>2. ASSUME NEW line \in lines PROVE <<End(line), line[Len(line) - 1]>> \in meant
  <2>1. PICK n \in 1..depth : \E p \in Chart(managers)[n] : p.line = line
    BY LinesAre
  <2>2. PICK p \in Chart(managers)[n] : p.line = line
    BY <2>1
  <2>3. Len(line) - 1 = n
    BY <2>2, LineTo, ChartLevels
  <2>4. End(line) \in E /\ ChainEnds(managers, End(line)) /\ line[n] = Parent(managers, End(line))
    BY <2>2, LineTo
  <2> QED  BY <2>3, <2>4
<1>3. ASSUME NEW e \in E, ChainEnds(managers, e) PROVE <<e, Parent(managers, e)>> \in shown
  <2>1. PICK n \in 1..depth : \E p \in Chart(managers)[n] : End(p.line) = e
    BY <1>3, EverybodySeated DEF Seated
  <2>2. PICK p \in Chart(managers)[n] : End(p.line) = e
    BY <2>1
  <2>3. p.line \in lines
    BY <2>2, LinesAre
  <2>4. Len(p.line) - 1 = n /\ p.line[n] = Parent(managers, e)
    BY <2>2, LineTo, ChartLevels
  <2> HIDE DEF lines
  <2> QED  BY <2>2, <2>3, <2>4
<1>4. shown = meant
  <2>1. shown \subseteq meant
    BY <1>2
  <2>2. meant \subseteq shown
    BY <1>3
  <2> QED  BY <2>1, <2>2
<1> QED  BY <1>1, <1>4 DEF ShowsEverybodyOnce, End

-----------------------------------------------------------------------------
(* The kernels, asked one question at a time. *)

\* The question stays the one that was asked, and the answer is the answer to it.
FiguresInv ==
  /\ kernel \in {"payslip", "payslip.done", "report", "report.done", "org", "org.done"}
  /\ kernel \in {"payslip", "payslip.done"} => question \in PayCases
  /\ kernel \in {"report", "report.done"} => question \in ReportCases
  /\ kernel \in {"org", "org.done"} => question \in Hierarchies
  /\ kernel = "payslip.done" =>
       result = [raise \in {0} \cup Raises |-> PayslipOf(Raised(question, raise))]
  /\ kernel = "report.done" =>
       compileReport(question.spec) = "ok" /\ result \in Pages(question.spec, question.table)
  /\ kernel = "org.done" => result = buildTree(question)

\* The invariant holds before a question is answered.
LEMMA FiguresInitInv == FiguresInit => FiguresInv
BY DEF FiguresInit, FiguresInv

\* Each kernel preserves it.
LEMMA FiguresStep == FiguresInv /\ [FiguresNext]_kernelVars => FiguresInv'
<1> SUFFICES ASSUME FiguresInv, [FiguresNext]_kernelVars PROVE FiguresInv'
  OBVIOUS
<1>1. CASE ComputePayslip
  BY <1>1 DEF ComputePayslip, FiguresInv
<1>2. CASE RunReport
  BY <1>2 DEF RunReport, FiguresInv
<1>3. CASE ShowOrgTree
  BY <1>3 DEF ShowOrgTree, FiguresInv
<1>4. CASE UNCHANGED kernelVars
  BY <1>4 DEF kernelVars, FiguresInv
<1> QED  BY <1>1, <1>2, <1>3, <1>4 DEF FiguresNext

\* It implies that payslips reconcile,
LEMMA AnsweredReconciles ==
    ASSUME NamesAreRead, FiguresInv
    PROVE  PayslipReconciles
<1> SUFFICES ASSUME kernel = "payslip.done"
             PROVE  Reconciles(question, result[0])
  BY DEF PayslipReconciles, Reconciles
<1>1. question \in Cases
  BY FiguresAssumption DEF FiguresInv
<1>2. result[0] = PayslipOf(Raised(question, 0)) /\ Raised(question, 0) = question
  BY <1>1, RaisedIs DEF FiguresInv
<1> QED  BY <1>1, <1>2, PayslipAlwaysReconciles

\* that raises pay,
LEMMA AnsweredPays ==
    ASSUME NamesAreRead, FiguresInv
    PROVE  RaiseNeverCosts
<1> SUFFICES ASSUME kernel = "payslip.done", NEW raise \in Raises
             PROVE  result[0].gross <= result[raise].gross /\ result[0].net <= result[raise].net
  BY DEF RaiseNeverCosts
<1>1. question \in Cases /\ raise \in Nat /\ BeatsRounding(raise, question)
  BY FiguresAssumption DEF FiguresInv
<1>2. result[0] = PayslipOf(Raised(question, 0)) /\ Raised(question, 0) = question
  BY <1>1, RaisedIs DEF FiguresInv
<1>3. result[raise] = PayslipOf(Raised(question, raise))
  BY DEF FiguresInv
<1> QED  BY <1>1, <1>2, <1>3, RaiseAlwaysPays

\* that reports agree,
LEMMA AnsweredAgrees == FiguresInv => ReportsReconcile
<1> SUFFICES ASSUME FiguresInv, kernel = "report.done"
             PROVE  ReportsAgree(question.spec, question.table, result)
  BY DEF ReportsReconcile
<1>1. /\ ReportCase([spec |-> question.spec, table |-> question.table])
      /\ compileReport(question.spec) = "ok" /\ result \in Pages(question.spec, question.table)
  BY FiguresAssumption DEF FiguresInv, ReportCase
<1> QED  BY <1>1, ReportsAlwaysAgree

\* and that charts show everybody.
LEMMA AnsweredShows == FiguresInv => EverybodyOnce
<1> SUFFICES ASSUME FiguresInv, kernel = "org.done"
             PROVE  ShowsEverybodyOnce(question, result)
  BY DEF EverybodyOnce
<1>1. Company(question) /\ result = buildTree(question)
  BY FiguresAssumption DEF FiguresInv, Company
<1> QED  BY <1>1, EverybodyShownOnce

\* The inductive invariant: a kernel answers the question it was asked.
THEOREM FiguresInvariant == FiguresSpec => []FiguresInv
<1> QED  BY FiguresInitInv, FiguresStep, PTL DEF FiguresSpec

\* Whatever is filtered, grouped, sorted, measured and limited, over any table of employees: the
\* rows a report returns never exceed the grand total, and add up to it unless the limit is
\* reached; the shares of a split add up to the whole; and with one dimension the rows that the
\* limit lets through are the same on every run (compileReport, ReportsService.runReport).
THEOREM ReportsAddUp == FiguresSpec => []ReportsReconcile
<1> QED  BY FiguresInvariant, AnsweredAgrees, PTL

\* The payslip of any member, under any of the three rule packs, at any pay, with any claims and
\* any unpaid days, is computed and adds up line by line (calculate, runPayroll and the loop of
\* RunsService.calculate), provided that a formula of one name reads the value of that name.
THEOREM PayslipsAddUp ==
    ASSUME NamesAreRead
    PROVE  FiguresSpec => []PayslipReconciles
<1>1. FiguresInv => PayslipReconciles
  BY AnsweredReconciles
<1> QED  BY <1>1, FiguresInvariant, PTL

\* No tax cliff, at any pay and in any country: a raise that is more than the rounding of the
\* slip's lines never lowers the net pay (bracketTax, and the standard deductions, thresholds and
\* ceilings of the rule packs).
THEOREM RaisesPay ==
    ASSUME NamesAreRead
    PROVE  FiguresSpec => []RaiseNeverCosts
<1>1. FiguresInv => RaiseNeverCosts
  BY AnsweredPays
<1> QED  BY <1>1, FiguresInvariant, PTL

\* Whatever the managers on record of however many employees - deleted, themselves, or in a
\* circle - the organisation chart has everybody once whose line of managers ends, under their
\* manager or at the top, and nobody else (buildTree of employees.service.ts).
THEOREM ChartsShowEverybodyOnce == FiguresSpec => []EverybodyOnce
<1> QED  BY FiguresInvariant, AnsweredShows, PTL
=============================================================================
