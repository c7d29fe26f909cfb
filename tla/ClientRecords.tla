---------------------------- MODULE ClientRecords ----------------------------
(***************************************************************************)
(* The rows of the clients table and what a request makes of them          *)
(* (src/app/modules/clients): which PATCH is accepted, which columns a     *)
(* flush writes, what the anonymisation leaves.  Operators only; the       *)
(* requests themselves are in CaseRecords.                                 *)
(***************************************************************************)
EXTENDS Naturals

CONSTANTS
  Cpfs,   \* tax numbers of persons
  Cnpjs,  \* tax numbers of companies
  None    \* the null of a document column

ASSUME DocumentConstants == None \notin Cpfs \union Cnpjs

\* "contact" stands for email, phone and address: "empty" when all are null.
ClientRow ==
  [name : {"named", "placeholder"}, contact : {"given", "empty"},
   cpf : Cpfs \union {None}, cnpj : Cnpjs \union {None}, deleted : BOOLEAN]

\* ClientCreate asks for exactly one of cpf and cnpj.
NewRows ==
  {r \in ClientRow : /\ r.name = "named" /\ ~r.deleted
                     /\ (r.cpf = None) # (r.cnpj = None)}

\* The fields a PATCH sets (exclude_unset), never both documents non-null; an
\* explicit null is a field that is set.
Patches ==
  [name : {"named"}] \union [contact : {"given", "empty"}]
    \union [cpf : Cpfs \union {None}] \union [cnpj : Cnpjs \union {None}]
    \union [cpf : Cpfs, cnpj : {None}] \union [cpf : {None}, cnpj : Cnpjs]

\* Mutant: setting one document leaves the other.
ClearedKept(row, data) == data

\* Setting one document to another value clears the other one.
Cleared(row, data) ==
  CASE "cpf" \in DOMAIN data /\ data.cpf # row.cpf ->
         [f \in DOMAIN data \union {"cnpj"} |-> IF f = "cnpj" THEN None ELSE data[f]]
    [] "cpf" \in DOMAIN data /\ data.cpf = row.cpf
         /\ "cnpj" \in DOMAIN data /\ data.cnpj # row.cnpj ->
         [f \in DOMAIN data |-> IF f = "cpf" THEN None ELSE data[f]]
    [] "cpf" \notin DOMAIN data /\ "cnpj" \in DOMAIN data /\ data.cnpj # row.cnpj ->
         [f \in DOMAIN data \union {"cpf"} |-> IF f = "cpf" THEN None ELSE data[f]]
    [] OTHER -> data

\* The document whose uniqueness update_client looks up, if any.
Changed(row, data) ==
  IF "cpf" \in DOMAIN data /\ data.cpf # row.cpf THEN {"cpf"}
  ELSE IF "cnpj" \in DOMAIN data /\ data.cnpj # row.cnpj THEN {"cnpj"} ELSE {}

\* Mutant: model_dump() without exclude_unset nulls what the PATCH leaves out.
FlushedUnset(current, loaded, data) ==
  [f \in DOMAIN current |-> IF f \in DOMAIN data THEN data[f]
                            ELSE IF f = "deleted" THEN current[f] ELSE None]

\* A flush writes the columns whose new value differs from the one that was
\* loaded; the others keep what the database holds by then.
Flushed(current, loaded, data) ==
  [f \in DOMAIN current |->
     IF f \in DOMAIN data /\ data[f] # loaded[f] THEN data[f] ELSE current[f]]

\* What anonymize assigns to the client it loaded.
ErasedData ==
  [name |-> "placeholder", contact |-> "empty", cpf |-> None, cnpj |-> None, deleted |-> TRUE]

\* uq_clients_cpf and uq_clients_cnpj; nulls never collide.
Collide(r, s) ==
  \/ r.cpf = s.cpf /\ r.cpf # None
  \/ r.cnpj = s.cnpj /\ r.cnpj # None
=============================================================================
