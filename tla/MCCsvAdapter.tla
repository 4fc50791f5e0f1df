--------------------------- MODULE MCCsvAdapter ---------------------------
(* Instances of CsvAdapter for TLC. *)
EXTENDS CsvAdapter

Cells(id, customer, amount, method, reason, status, at) ==
  [transaction_id |-> id, customer_id |-> customer, amount |-> amount,
   payment_method |-> method, failure_reason |-> reason, transaction_status |-> status,
   due_date |-> 3, transaction_timestamp |-> at]

Header1 == {"payment_id", "customer_id", "amount", "method", "reason", "status", "created_at"}

\* Other names; no dates; a column missing; two headers for one column.
Headers ==
  {Header1,
   {"id", "cust_id", "txn_amount", "payment_type", "error_reason", "failure_description",
    "payment_status", "payment_due_date", "created_on"},
   Header1 \ {"created_at"},
   Header1 \ {"status"},
   Header1 \cup {"payment_method"},
   Header1 \cup {"transaction_timestamp"}}

\* The middle row varies, beside an early and a late payment.
Customer == {"c1", "c2", Blank}
Day == {1, 2, 3, Blank, Unreadable}

Middle ==
  {Cells("t2", c, 20000, "upi", Blank, s, d) : c \in Customer, s \in {"failed", "charged"}, d \in Day}

Odd ==
  {Cells("t1", "c1", 100, "upi", Blank, "failed", 2),
   Cells(Blank, "c1", 100, "upi", Blank, "failed", 2),
   Cells("t2", "c1", 0, "upi", Blank, "failed", 2),
   Cells("t2", "c1", Unreadable, "upi", Blank, "failed", 2),
   Cells("t2", "c1", 100, "cash", Blank, "failed", 2),
   Cells("t2", "c1", 100, "upi", "theft", "failed", 2),
   Cells("t2", "c1", 100, "upi", "bank_down", "lost", 2)}

Around(mid) ==
  {<<Cells("t1", "c1", 10000, "upi", "bank_down", s, 1), mid,
     Cells("t3", "c1", a, "credit_card", Blank, "charged", d)>> :
     s \in {"failed", "charged"}, a \in {350, 30000}, d \in {1, 3}}

Files ==
  UNION {Around(mid) : mid \in Middle \cup Odd} \cup
  {<<>>, <<Cells("t1", Blank, 100, "upi", Blank, "failed", 1)>>,
   <<Cells("t1", Blank, 100, "upi", Blank, "failed", 1),
     Cells("t2", Blank, 300, "upi", Blank, "charged", 2)>>}

MCUploads ==
  {[size |-> "fits", header |-> h, rows |-> f, unit |-> u] :
     h \in {Header1}, f \in Files, u \in {"rupees", "paise", "auto"}} \cup
  {[size |-> "fits", header |-> h, rows |-> f, unit |-> "rupees"] :
     h \in Headers, f \in Files} \cup
  {[size |-> s, header |-> Header1, rows |-> f, unit |-> "rupees"] :
     s \in {"none", "large"}, f \in {<<>>}} \cup
  {[size |-> "fits", header |-> Header1, rows |-> mid \o mid, unit |-> "rupees"] :
     mid \in {<<r, r>> : r \in Odd}}
=============================================================================
