----------------------------- MODULE ViewEngine -----------------------------
(***************************************************************************)
(* Construct_View_Output of src/libopenss-cli/SS_View_output.cxx, with    *)
(* Calculate_Percent and the accumulation of result values from           *)
(* src/libopenss-cli/CommandObject.hxx.                                    *)
(*                                                                         *)
(* A worker turns the items of a view (one vector of temps per row) into  *)
(* report rows under the view instructions IV, then a summary row.  The   *)
(* command's status can be set to Aborted by another thread at any time;  *)
(* the loop polls it at the top of each row.  One row (or the summary) is *)
(* one step.  A result value is a record; temps of the items carry the id *)
(* <<row, temp>>, every value created by the loop (Copy, percent, "") has *)
(* the empty id <<>>, and a temp moved into a column is nulled in its    *)
(* item ("allow only 1 pointer to a CommandResult object").              *)
(***************************************************************************)
EXTENDS Integers, Sequences, SequencesExt, FiniteSets

CONSTANTS
    IV,          \* the view instructions: [op, tr, t1, t2]
    NumTemps,    \* temps in each item's vector
    MaxRows,     \* bound on the items of a view
    VarTemps,    \* the temps whose value varies between items (others are 0)
    Vals,        \* values such a temp may have
    Totals       \* values Total_Value[0] may have

VARIABLES
    input,       \* the items as passed in (never changed)
    items,       \* the rows' temp vectors (a moved temp becomes Null)
    total,       \* Total_Value
    output,      \* view_output: Columns rows and the Enders summary
    summaryTemp, \* summary_temp
    k,           \* the next item
    pc,          \* "rows", "summary", "nodata" or "done"
    status       \* Status() of the command: "executing" or "aborted"

vars == <<input, items, total, output, summaryTemp, k, pc, status>>

Temps == 0..NumTemps-1
Null == [id |-> <<>>, type |-> "null", num |-> 0, den |-> 1, text |-> ""]
Uint(id, v) == [id |-> id, type |-> "uint", num |-> v, den |-> 1, text |-> ""]
Float(n, d) == [id |-> <<>>, type |-> "float", num |-> n, den |-> d, text |-> ""]
Str(s) == [id |-> <<>>, type |-> "string", num |-> 0, den |-> 1, text |-> s]
Copy(v) == [v EXCEPT !.id = <<>>]
(* CommandResult_Columns and CommandResult_Enders: the cells a row got   *)
(* from Add_Column / Add_Ender, in order.                                 *)
Columns(cells) == [kind |-> "columns", cells |-> cells]
Enders(cells) == [kind |-> "enders", cells |-> cells]
RowKey(r) == [id |-> <<>>, type |-> "key", num |-> r, den |-> 1, text |-> ""]
NoData == "There were no data samples"
-----------------------------------------------------------------------------
(* Calculate_Percent(A, B): NULL for no B, 0.0 for no A, NULL when B is   *)
(* not positive, otherwise A*100/B clamped below at 0 (the upper clamp    *)
(* is commented out).                                                     *)
CalculatePercentClampHigh(a, b) ==
    CASE b = Null -> Null
      [] a = Null -> Float(0, 1)
      [] b.num <= 0 -> Null
      [] a.num * 100 < 0 -> Float(0, 1)
      [] a.num * 100 > 100 * b.num -> Float(100, 1)
      [] OTHER -> Float(a.num * 100, b.num)

CalculatePercent(a, b) ==
    CASE b = Null -> Null
      [] a = Null -> Float(0, 1)
      [] b.num <= 0 -> Null
      [] a.num * 100 < 0 -> Float(0, 1)
      [] OTHER -> Float(a.num * 100, b.num)

(* Accumulate_Value, Accumulate_Min and Accumulate_Max of two values of   *)
(* one type, as Accumulate_Uint/Int add them.                             *)
Accumulate(op, a, b) ==
    CASE op = "Add" -> [a EXCEPT !.num = a.num + b.num]
      [] op = "Min" -> IF b.num < a.num THEN [a EXCEPT !.num = b.num] ELSE a
      [] op \in {"Max", "Summary_Max"} -> IF b.num > a.num THEN [a EXCEPT !.num = b.num] ELSE a
-----------------------------------------------------------------------------
(* The reformatting of IV at the top of Construct_View_Output.           *)
DisplayOps == {"Metric", "PercentColumn", "PercentTmp", "Tmp"}
AccumOps == {"Add", "Min", "Max", "Summary_Max"}
NumColumns == 1 + LET trs == {IV[j].tr : j \in {j \in DOMAIN IV : IV[j].op \in DisplayOps}}
                  IN CHOOSE m \in trs : \A n \in trs : n <= m
LastWith(P(_)) == LET js == {j \in DOMAIN IV : P(IV[j])} IN
                  IF js = {} THEN Null ELSE IV[CHOOSE j \in js : \A n \in js : n <= j]
ViewInst == [c \in 0..NumColumns-1 |->
               LastWith(LAMBDA vp : vp.op \in DisplayOps /\ vp.tr = c /\ vp.tr < NumTemps)]
AccumulateInst == [t \in Temps |->
               LastWith(LAMBDA vp : vp.op \in AccumOps /\ vp.t1 = t /\ vp.t1 < NumTemps)]
ReportSummary == (\E j \in DOMAIN IV : IV[j].op = "Summary") /\ NumTemps # 0
GenTotalPercent == Len(total) > 0
PercentOfColumn ==
    IF GenTotalPercent /\ \E j \in DOMAIN IV : IV[j].op = "PercentColumn"
    THEN IV[CHOOSE j \in DOMAIN IV : IV[j].op = "PercentColumn" /\
              \A n \in DOMAIN IV : IV[n].op = "PercentColumn" => j <= n].t1
    ELSE -1

(* The temp column c of a row takes over (marks input_temp_used).        *)
MovedTempNever(row, c) == -1

MovedTemp(row, c) ==
    CASE ViewInst[c].op = "Metric" -> c
      [] ViewInst[c].op = "Tmp" /\ row[ViewInst[c].t1] # Null -> ViewInst[c].t1
      [] OTHER -> -1

UsedBefore(row, c, t) == \E c2 \in 0..c-1 : MovedTemp(row, c2) = t
Take(row, c, t) == IF UsedBefore(row, c, t) THEN Copy(row[t]) ELSE row[t]
OrEmpty(v) == IF v = Null THEN Str("") ELSE v

(* Column c of the report row for the item row.                          *)
RECURSIVE Cell(_, _)
Cell(row, c) ==
    LET vi == ViewInst[c] IN
    OrEmpty(CASE vi.op = "Metric" -> Take(row, c, c)
              [] vi.op = "Tmp" -> IF row[vi.t1] = Null THEN Null ELSE Take(row, c, vi.t1)
              [] vi.op = "PercentColumn" ->
                   IF GenTotalPercent /\ c > PercentOfColumn
                      /\ Cell(row, PercentOfColumn).type # "string"
                   THEN CalculatePercent(Cell(row, PercentOfColumn), total[vi.t2 + 1])
                   ELSE Null
              [] vi.op = "PercentTmp" ->
                   IF row[vi.t1] = Null THEN Null
                   ELSE CalculatePercent(row[vi.t1], total[vi.t2 + 1]))

(* Column c of the summary row.                                          *)
RECURSIVE SummaryCell(_)
SummaryCell(c) ==
    LET si == ViewInst[c] IN
    OrEmpty(CASE si.op = "Tmp" /\ AccumulateInst[si.t1] # Null -> Copy(summaryTemp[si.t1])
              [] si.op = "PercentTmp" -> CalculatePercent(summaryTemp[si.t1], total[si.t2 + 1])
              [] si.op = "PercentColumn" ->
                   IF GenTotalPercent /\ c > PercentOfColumn
                      /\ SummaryCell(PercentOfColumn).type # "string"
                   THEN CalculatePercent(SummaryCell(PercentOfColumn), total[si.t2 + 1])
                   ELSE Null
              [] OTHER -> Null)

(* Accumulate_PreDefined_Temps over len = min(IV.size(), A.size()).      *)
AccumulateTemps(acc, row) ==
    [t \in Temps |-> IF AccumulateInst[t] # Null
                     THEN Accumulate(AccumulateInst[t].op, acc[t], row[t]) ELSE acc[t]]

(* The first row seeds summary_temp with copies of its temps.             *)
SeedSummary(row) == [t \in Temps |-> IF row[t] = Null THEN Null ELSE Copy(row[t])]

(* The columns of the report row of item r, its key appended.            *)
ColumnsRow(r, row) ==
    Columns([c \in 1..NumColumns + 1 |->
                IF c <= NumColumns THEN Cell(row, c - 1) ELSE RowKey(r)])

(* "Reclaim space for unused temps": every temp a column took is nulled.  *)
Reclaim(row) ==
    [t \in Temps |-> IF \E c \in 0..NumColumns-1 : MovedTemp(row, c) = t
                     THEN Null ELSE row[t]]
-----------------------------------------------------------------------------
Init ==
    /\ \E n \in 0..MaxRows : \E vs \in [1..n -> [VarTemps -> Vals]] :
          input = [r \in 1..n |-> [t \in Temps |->
                     Uint(<<r, t>>, IF t \in VarTemps THEN vs[r][t] ELSE 0)]]
    /\ items = input
    /\ total \in {<<Uint(<<>>, v)>> : v \in Totals}
    /\ output = <<>>
    /\ summaryTemp = [t \in Temps |-> Null]
    /\ k = 1
    /\ pc = IF input = <<>> THEN "nodata" ELSE "rows"
    /\ status = "executing"

(* The command is aborted by another thread (Status() becomes           *)
(* CMD_ABORTED) while its view is being built.                           *)
Abort ==
    /\ status = "executing"
    /\ pc # "done"
    /\ status' = "aborted"
    /\ UNCHANGED <<input, items, total, output, summaryTemp, k, pc>>

(* The poll at the top of the row loop sees the abort and returns.       *)
AbortReturn ==
    /\ pc = "rows"
    /\ status = "aborted"
    /\ pc' = "done"
    /\ UNCHANGED <<input, items, total, output, summaryTemp, k, status>>

(* One iteration of the row loop: place the columns, push the row,      *)
(* accumulate the summary and reclaim the temps that were taken.         *)
RowStep ==
    /\ pc = "rows"
    /\ status # "aborted"
    /\ LET row == items[k] IN
         /\ output' = Append(output, ColumnsRow(k, row))
         /\ summaryTemp' = CASE ~ReportSummary -> summaryTemp
                              [] k = 1 -> SeedSummary(row)
                              [] OTHER -> AccumulateTemps(summaryTemp, row)
         /\ items' = [items EXCEPT ![k] = Reclaim(row)]
    /\ k' = k + 1
    /\ pc' = CASE k < Len(items) -> "rows"
                [] ReportSummary -> "summary"
                [] OTHER -> "done"
    /\ UNCHANGED <<input, total, status>>

(* The Enders row labelled "Report Summary"; summary_temp is released.   *)
SummaryRow ==
    /\ pc = "summary"
    /\ output' = Append(output,
          Enders([c \in 1..NumColumns + 1 |->
                    IF c <= NumColumns THEN SummaryCell(c - 1)
                    ELSE Str("Report Summary")]))
    /\ summaryTemp' = [t \in Temps |-> Null]
    /\ pc' = "done"
    /\ UNCHANGED <<input, items, total, k, status>>

(* The else branch for an empty item list: one Columns row with the     *)
(* no-data message.                                                      *)
NoDataRow ==
    /\ pc = "nodata"
    /\ output' = <<Columns(<<Str(NoData)>>)>>
    /\ pc' = "done"
    /\ UNCHANGED <<input, items, total, summaryTemp, k, status>>

(* Construct_View_Output has returned.                                  *)
Finished == pc = "done"

Next ==
    \/ Abort
    \/ AbortReturn
    \/ RowStep
    \/ SummaryRow
    \/ NoDataRow
    \/ Finished /\ UNCHANGED vars

Spec == Init /\ [][Next]_vars
-----------------------------------------------------------------------------
NoNumber == [num |-> 0, den |-> 0]   \* null, or a cell with no number

(* percentOf of the specification: null when the whole is not positive, *)
(* otherwise part*100/whole clamped below at 0 and not above.           *)
PercentOfRef(x, y) ==
    IF y <= 0 THEN NoNumber ELSE [num |-> IF x < 0 THEN 0 ELSE 100 * x, den |-> y]

(* What the accumulators should hold after all input rows: the sum,     *)
(* minimum or maximum of the temp over every row, or the first row's    *)
(* value where no accumulation is defined.                               *)
Reduced(t) ==
    LET vs == [r \in DOMAIN input |-> input[r][t].num]
        op == IF AccumulateInst[t] = Null THEN "None" ELSE AccumulateInst[t].op
    IN CASE op = "Add" -> FoldSeq(LAMBDA x, y : x + y, 0, vs)
         [] op = "Min" -> Min(Range(vs))
         [] op \in {"Max", "Summary_Max"} -> Max(Range(vs))
         [] OTHER -> vs[1]

ExpectedSummary(c) ==
    LET vi == ViewInst[c] IN
    CASE vi.op = "Tmp" /\ AccumulateInst[vi.t1] # Null -> [num |-> Reduced(vi.t1), den |-> 1]
      [] vi.op = "PercentTmp" -> PercentOfRef(Reduced(vi.t1), total[vi.t2 + 1].num)
      [] vi.op = "PercentColumn" /\ c > PercentOfColumn /\ PercentOfColumn >= 0 ->
           PercentOfRef(Reduced(ViewInst[PercentOfColumn].t1), total[vi.t2 + 1].num)
      [] OTHER -> NoNumber

Shows(cell, e) ==
    IF e = NoNumber THEN cell = Str("")
    ELSE cell.type # "string" /\ cell.num * e.den = e.num * cell.den

(* The summary row built after the loop shows, in every column, the     *)
(* value the whole item list determines: Construct_View_Output seeds     *)
(* summary_temp from the first row, Accumulate_PreDefined_Temps folds    *)
(* each later row in, and the percent columns apply Calculate_Percent   *)
(* to the accumulated values, which must agree with percentOf.           *)
SummaryReflectsRows ==
    \A j \in DOMAIN output : output[j].kind = "enders" =>
        \A c \in 0..NumColumns-1 : Shows(output[j].cells[c + 1], ExpectedSummary(c))

Holders(x) ==
    {<<"output", j, c>> : <<j, c>> \in {p \in (DOMAIN output) \X (1..NumColumns + 1) :
        p[2] \in DOMAIN output[p[1]].cells /\ output[p[1]].cells[p[2]].id = x}}
      \cup {<<"items", p[1], p[2]>> : p \in {p \in (DOMAIN items) \X Temps : items[p[1]][p[2]].id = x}}

(* "Allow only 1 pointer to a CommandResult object": each temp of the   *)
(* items is held by at most one place, a column of the output or its    *)
(* item's vector, however many columns display it; a second use gets a  *)
(* Copy and a taken temp is nulled in the item.                          *)
SingleOwner ==
    \A r \in DOMAIN input, t \in Temps : Cardinality(Holders(<<r, t>>)) <= 1
=============================================================================
