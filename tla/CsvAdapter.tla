---------------------------- MODULE CsvAdapter ----------------------------
(***************************************************************************)
(* rpa/csv_adapter.py: an uploaded CSV becomes the transactions and the    *)
(* customers of a batch, or is refused as a whole.                         *)
(*                                                                         *)
(* A row has a cell per canonical column.  Money is in hundredths of the   *)
(* unit of the file, then of a paisa.  The payment method stands for       *)
(* method and bank, which are treated alike.  The currency and the retry   *)
(* count, and the behaviour score and recovery rate that are computed from *)
(* the same history as the success rate, are left out.                     *)
(***************************************************************************)
EXTENDS Sequences, FiniteSetsExt, Sums

CONSTANTS
  Uploads,     \* files: [size, header, rows, unit]
  MaxRows,     \* rows a file may have
  PaiseFloor,  \* median, in hundredths, above which a file may be in paise
  Today,       \* the reference date, a day
  Method, Reason, Status,  \* the vocabularies
  Blank,       \* an empty cell
  Unreadable   \* an amount or a date that cannot be parsed

Canonical ==
  {"transaction_id", "customer_id", "amount", "payment_method", "failure_reason",
   "transaction_status", "due_date", "transaction_timestamp"}

ASSUME CsvAssumption ==
  /\ Today \in Int /\ Blank # Unreadable /\ Unreadable \notin Int
  /\ \A u \in Uploads :
       /\ Len(u.rows) \in Nat /\ u.rows = [i \in 1..Len(u.rows) |-> u.rows[i]]
       /\ \A i \in 1..Len(u.rows) :
            /\ u.rows[i] = [c \in Canonical |-> u.rows[i][c]]
            /\ u.rows[i].amount \in Int \cup {Unreadable}
            /\ u.rows[i].transaction_timestamp \in Int \cup {Blank, Unreadable}

VARIABLES
  upload,      \* the file
  table,       \* its rows, as far as they are transformed
  features,    \* position in the table -> history features
  customers,   \* customer -> features
  step

csvVars == <<upload, table, features, customers, step>>

Header == upload.header
Rows == DOMAIN table
Column(c) == {table[i][c] : i \in Rows}

CsvInit ==
  /\ upload \in Uploads
  /\ table = <<>> /\ features = <<>> /\ customers = <<>>
  /\ step = "parse"

\* CSVValidationError, which the endpoint answers with 422.
Refuse == step' = "refused" /\ UNCHANGED <<upload, table, features, customers>>

Parse ==
  /\ step = "parse"
  /\ upload.size = "fits" /\ Len(upload.rows) \in 1..MaxRows
  /\ table' = upload.rows
  /\ step' = "map"
  /\ UNCHANGED <<upload, features, customers>>

NotParsed ==
  /\ step = "parse"
  /\ upload.size # "fits" \/ Len(upload.rows) \notin 1..MaxRows
  /\ Refuse

-----------------------------------------------------------------------------
(* Columns.                                                                *)

\* The headers a column may have; the first that is there is taken.
Aliases ==
  [transaction_id |-> <<"payment_id", "id", "txn_id", "transaction_id">>,
   customer_id |-> <<"customer_id", "payer_id", "payer_vpa", "cust_id">>,
   amount |-> <<"amount", "transaction_amount", "payment_amount", "txn_amount">>,
   payment_method |-> <<"method", "payment_method", "payment_type">>,
   failure_reason |-> <<"error_description", "error_reason", "reason",
                        "failure_reason", "failure_description">>,
   transaction_status |-> <<"status", "payment_status", "transaction_status">>,
   due_date |-> <<"due_date", "payment_due_date">>,
   transaction_timestamp |-> <<"created_at", "created_on", "created", "payment_date",
                               "transaction_date", "initiated_at">>]

Optional == {"due_date", "transaction_timestamp"}

Found(c) == {k \in DOMAIN Aliases[c] : Aliases[c][k] \in Header}
Missing == {c \in Canonical \ Optional : Found(c) = {}}

\* What a header is renamed to; one that was not chosen keeps its name.
Renamed(h) ==
  LET c == {c \in Canonical : Found(c) # {} /\ Aliases[c][Min(Found(c))] = h}
  IN  IF c = {} THEN h ELSE CHOOSE x \in c : TRUE

Columns == {Renamed(h) : h \in Header}

\* Two columns of one name make a frame whose .str does not exist.
Ambiguous == Cardinality(Columns) # Cardinality(Header)

MapColumns ==
  /\ step = "map" /\ Missing = {} /\ ~Ambiguous
  /\ step' = "validate"
  /\ UNCHANGED <<upload, table, features, customers>>

ColumnsMissing == step = "map" /\ Missing # {} /\ Refuse

\* An AttributeError, which nothing catches: 500.
MappingFails ==
  /\ step = "map" /\ Missing = {} /\ Ambiguous
  /\ step' = "failed"
  /\ UNCHANGED <<upload, table, features, customers>>

-----------------------------------------------------------------------------
(* Validation of the mapped rows, and their values.                        *)

UniqueIds == \A i, j \in Rows : table[i].transaction_id = table[j].transaction_id => i = j

SchemaValid ==
  /\ UniqueIds /\ Blank \notin Column("transaction_id")
  /\ Unreadable \notin Column("amount") /\ \A i \in Rows : table[i].amount > 0
  /\ Column("payment_method") \subseteq Method
  /\ Column("failure_reason") \subseteq Reason \cup {Blank}
  /\ Column("transaction_status") \subseteq Status \cup {Blank}

ValidateSchema ==
  /\ step = "validate" /\ SchemaValid
  /\ step' = "amounts"
  /\ UNCHANGED <<upload, table, features, customers>>

ValidationFails == step = "validate" /\ ~SchemaValid /\ Refuse

\* The k-th smallest amount.
Smallest(k) ==
  CHOOSE v \in Column("amount") :
    /\ Cardinality({i \in Rows : table[i].amount < v}) < k
    /\ Cardinality({i \in Rows : table[i].amount <= v}) >= k

Median2 ==
  Smallest((Len(table) + 1) \div 2) + Smallest((Len(table) + 2) \div 2)

\* Fault: every amount is judged by itself.
InPaiseEach(i) == upload.unit # "rupees" /\ table[i].amount > PaiseFloor

\* As declared, or guessed from whole amounts with a large median.
InPaise(i) ==
  \/ upload.unit = "paise"
  \/ /\ upload.unit = "auto"
     /\ Median2 > 2 * PaiseFloor
     /\ \A j \in Rows : table[j].amount % 100 = 0

ConvertAmounts ==
  /\ step = "amounts"
  /\ table' = [i \in Rows |->
                 IF InPaise(i) THEN table[i] ELSE [table[i] EXCEPT !.amount = 100 * @]]
  /\ step' = "dates"
  /\ UNCHANGED <<upload, features, customers>>

\* The reference date stands in only where a whole column is missing.
Dated(c) ==
  IF c \notin Columns \/ Column(c) \subseteq {Blank}
  THEN [i \in Rows |-> Today]
  ELSE [i \in Rows |-> IF table[i][c] = Blank THEN Unreadable ELSE table[i][c]]

NormalizeTimestamps ==
  /\ step = "dates"
  /\ table' = [i \in Rows |->
                 [table[i] EXCEPT !.due_date = Dated("due_date")[i],
                                  !.transaction_timestamp = Dated("transaction_timestamp")[i]]]
  /\ step' = "defaults"
  /\ UNCHANGED <<upload, features, customers>>

\* Customers are told apart by their payment method if the file names none;
\* one empty name among others is a customer.
CustomerOf(i) ==
  IF Column("customer_id") \subseteq {Blank} THEN table[i].payment_method
  ELSE table[i].customer_id

ApplyDefaults ==
  /\ step = "defaults"
  /\ table' = [i \in Rows |->
                 [table[i] EXCEPT !.failure_reason = IF @ = Blank THEN "network_timeout" ELSE @,
                                  !.customer_id = CustomerOf(i)]]
  /\ step' = "features"
  /\ UNCHANGED <<upload, features, customers>>

-----------------------------------------------------------------------------
(* History features.                                                       *)

\* Strictly earlier; a date that cannot be read is before and after nothing.
Earlier(r, s) ==
  /\ Unreadable \notin {r.transaction_timestamp, s.transaction_timestamp}
  /\ r.transaction_timestamp < s.transaction_timestamp

\* The earlier transactions of the customer.
History(rows, r) ==
  {s \in {rows[i] : i \in DOMAIN rows} :
     s.customer_id = r.customer_id /\ Earlier(s, r)}

Neutral == [ltv |-> 0, success |-> 50, tenure |-> 0]

Clip(percent) == IF percent < 2 THEN 2 ELSE IF percent > 98 THEN 98 ELSE percent

\* What was paid, or asked if nothing was; the rate of success; days known.
Summary(history) ==
  LET paid == {s \in history : s.transaction_status # "failed"}
      Total(S) == SumOver([s \in S |-> s.amount], S)
      days == {s.transaction_timestamp : s \in history}
  IN  IF history = {} THEN Neutral
      ELSE [ltv |-> Total(IF paid = {} THEN history ELSE paid),
            success |-> Clip((100 * Cardinality(paid)) \div Cardinality(history)),
            tenure |-> Max({1, Max(days) - Min(days)})]

FeaturesOf(rows, r) == Summary(History(rows, r))

\* Sorted by customer and date, unreadable dates last.
Sorts(order) ==
  /\ {order[p] : p \in Rows} = Rows
  /\ \A p, q \in Rows : p < q =>
       LET r == table[order[p]]
           s == table[order[q]]
       IN  /\ ~(r.customer_id = s.customer_id /\ Earlier(s, r))
           /\ r.customer_id = s.customer_id => r.transaction_timestamp # Unreadable
                \/ s.transaction_timestamp = Unreadable
           /\ \A m \in p..q :
                r.customer_id = s.customer_id => table[order[m]].customer_id = r.customer_id

\* Fault: the features of the sorted rows are put beside the unsorted ones.
AttachedUnsorted(order) == [p \in Rows |-> FeaturesOf(table, table[p])]

Attached(order) == [p \in Rows |-> FeaturesOf(table, table[order[p]])]

AttachFeatures ==
  /\ step = "features"
  /\ \E order \in [Rows -> Rows] :
       /\ Sorts(order)
       /\ table' = [p \in Rows |-> table[order[p]]]
       /\ features' = Attached(order)
  /\ step' = "customers"
  /\ UNCHANGED <<upload, customers>>

\* The mean over all transactions of the customer, early and late.
MeanOver(S, feature) ==
  [f \in DOMAIN Neutral |->
     SumOver([p \in S |-> feature[p][f]], S) \div Cardinality(S)]

RowsOf(c) == {p \in Rows : table[p].customer_id = c}

BuildCustomers ==
  /\ step = "customers"
  /\ customers' = [c \in Column("customer_id") |-> MeanOver(RowsOf(c), features)]
  /\ step' = "done"
  /\ UNCHANGED <<upload, table, features>>

CsvNext ==
  \/ Parse \/ NotParsed
  \/ MapColumns \/ ColumnsMissing \/ MappingFails
  \/ ValidateSchema \/ ValidationFails
  \/ ConvertAmounts \/ NormalizeTimestamps \/ ApplyDefaults
  \/ AttachFeatures \/ BuildCustomers

CsvSpec == CsvInit /\ [][CsvNext]_csvVars

-----------------------------------------------------------------------------
(* Properties.                                                             *)

(* A file that is accepted loses and invents no transaction: the rows of   *)
(* the result are those of the file, once each, and the amounts keep their *)
(* proportions (csv_adapter.py:927-1012).  Each has its customer, and a    *)
(* customer's features lie between those of its own transactions           *)
(* (csv_adapter.py:1057-1125).                                             *)
RowsKept ==
  step = "done" =>
    /\ Len(table) = Len(upload.rows)
    /\ \E scale \in {1, 100} : \A r \in {upload.rows[i] : i \in DOMAIN upload.rows} :
         \E p \in Rows :
           /\ table[p].transaction_id = r.transaction_id
           /\ table[p].amount = scale * r.amount
           /\ table[p].payment_method = r.payment_method
    /\ DOMAIN customers = Column("customer_id")
    /\ \A c \in DOMAIN customers : \A f \in DOMAIN Neutral :
         \E p, q \in Rows :
           /\ table[p].customer_id = c /\ table[q].customer_id = c
           /\ features[p][f] <= customers[c][f] /\ customers[c][f] <= features[q][f]

Changed(j) == [table EXCEPT ![j].amount = @ + 1,
                            ![j].transaction_status = IF @ = "failed" THEN Blank ELSE "failed"]

(* The features of a transaction do not change with its own amount and     *)
(* status, nor with those of a transaction that is not strictly earlier or *)
(* is another customer's (csv_adapter.py:798-803).                         *)
PastOnly ==
  step \in {"customers", "done"} =>
    \A p, j \in Rows :
      \/ Earlier(table[j], table[p]) /\ table[j].customer_id = table[p].customer_id
      \/ FeaturesOf(Changed(j), Changed(j)[p]) = features[p]

(* "each transaction's customer features use only information available    *)
(* BEFORE that transaction" (csv_adapter.py:57-58).  What the batch reads  *)
(* of a transaction's customer is the row of the customer.                 *)
ScoredOnThePast ==
  step = "done" =>
    \A p, j \in Rows :
      \/ Earlier(table[j], table[p])
      \/ LET recomputed == [q \in Rows |-> FeaturesOf(Changed(j), Changed(j)[q])]
             c == table[p].customer_id
         IN  MeanOver(RowsOf(c), recomputed) = customers[c]
=============================================================================
