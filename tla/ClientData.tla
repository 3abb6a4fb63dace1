------------------------------- MODULE ClientData -------------------------------
(***************************************************************************)
(* What a consumer reads of final_visao_cliente while the ETL rewrites it: *)
(* the four indicators, the lists behind them, and the lookups by          *)
(* document (app/api/v1/endpoints/clientes.py and empresas.py over         *)
(* VisaoClienteRepository).                                                *)
(*                                                                         *)
(* A request is a sequence of statements; each sees the table as it is     *)
(* then (READ COMMITTED).  Every column is text.  A date or amount is its  *)
(* text, NULL, the empty string or "nan"; texts of dates are compared as   *)
(* strings, and "2026-03-31 00:00:00" is longer than "2026-03-31".         *)
(***************************************************************************)
EXTENDS Naturals, FiniteSets, SequencesExt

CONSTANTS Documents,      \* CPF or CNPJ of the clients
          Clients,        \* rows the ETL may write, for the indicators (bound)
          LookupClients,  \* rows the ETL may write, for the lookups (bound)
          AsOf,           \* reference date of the indicators
          MaxChanges,     \* rows changed by the ETL (bound)
          Null, NaN, Blank, None

\* Days are counted in months of 31, months from a January on.
Month(day) == day \div 31
FirstDay(month) == month * 31
LastDay(month) == month * 31 + 30

\* Rank of the text of a date among such texts: with a time it comes after the
\* same day without one and before the next day.
DateText(day, timed) == 2 * day + IF timed THEN 1 ELSE 0

Missing == {Null, NaN, Blank}
Statuses == {"LIBERADA", "liberada", "ENCERRADA", Null}

Client == [tipo_pessoa : {"PJ", "PF"}, status_cc : Statuses,
           dt_conta_criada : Nat \cup Missing, dt_install_maq : Nat \cup Missing,
           dt_cancelamento_maq : Nat \cup Missing, tpv_m0 : Nat \cup Missing,
           fl_qualificado_comiss : {"0", "1", "1.0", Null, NaN}]

ASSUME ConstantsAssumption ==
  /\ Clients \cup LookupClients \subseteq Client
  /\ AsOf \in Nat /\ Month(AsOf) >= 5 /\ MaxChanges \in Nat
  /\ IsFiniteSet(Documents) /\ None \notin Documents
  /\ Cardinality(Missing) = 3
  /\ \A m \in Missing : m \notin Nat /\ m \notin {"1", "1.0"}

VARIABLES view,   \* what the consumer does: "indicadores" or "consulta"
          asked,  \* documents it looks up, as it writes them
          table,  \* final_visao_cliente: a row or None for each document
          req,    \* the request in flight
          shown,  \* the last answer of each kind
          changes \* rows changed so far

vars == <<view, asked, table, req, shown, changes>>

\* A text the consumer writes: the document it is, if any, and the documents that
\* contain it.  A document with punctuation is None and contained in none; part of
\* a document, or one with spaces around it, is None and contained in some; a CPF
\* may be contained in a CNPJ.
Written == {w \in [is : Documents \cup {None}, within : SUBSET Documents] :
              w.is # None => w.is \in w.within}

Indicators == <<"contas_abertas", "instalacao_c6pay", "qualificacao_c6pay",
                "contas_qualificadas">>

Paths(v) == IF v = "consulta" THEN {"completo", "lote", "lote_liberadas", "detalhe"}
            ELSE {"indicadores", "clientes", "clientes_true", "clientes_false", "empresas"}

Answers(v) == IF v = "consulta" THEN Paths(v)
              ELSE (Paths(v) \ {"indicadores"}) \cup ToSet(Indicators)

\* The lists read a page and then the total; the others read once.
StatementsOf(path) ==
  CASE path = "indicadores" -> Indicators
    [] path \in {"lote", "lote_liberadas", "detalhe"} -> <<path>>
    [] OTHER -> <<"page", path>>

\* at: the number of changes when the statement ran.
Result == [docs : SUBSET Documents, at : 0..MaxChanges]
NoRequest == [path |-> None, got |-> <<>>]

TypeOK ==
  /\ view \in {"indicadores", "consulta"}
  /\ asked \in Seq(Written)
  /\ table \in [Documents -> Client \cup {None}]
  /\ req \in [path : Paths(view) \cup {None}, got : Seq(Result)]
  /\ req.path # None => Len(req.got) <= Len(StatementsOf(req.path))
  /\ shown \in [Answers(view) -> Result \cup {None}]
  /\ changes \in 0..MaxChanges

Init ==
  /\ view \in {"indicadores", "consulta"}
  /\ asked \in IF view = "consulta" THEN {<<v, w>> : v, w \in Written} ELSE {<<>>}
  /\ table \in [Documents -> {None} \cup IF view = "consulta" THEN LookupClients ELSE Clients]
  /\ req = NoRequest
  /\ shown = [a \in Answers(view) |-> None]
  /\ changes = 0

-----------------------------------------------------------------------------
\* Conditions of the statements.  Where one is unknown (NULL) the row is left out.

Upper == [s \in Statuses |-> IF s = "liberada" THEN "LIBERADA" ELSE s]
StatusIs(row, status) == Upper[row.status_cc] = Upper[status]

LiberadaPJ(row) == row.tipo_pessoa = "PJ" /\ row.status_cc = "LIBERADA"

\* January to March of the year of as_of.
ContasWindow ==
  LET january == Month(AsOf) - (Month(AsOf) % 12)
  IN  DateText(FirstDay(january), FALSE) .. DateText(LastDay(january + 2), FALSE)

\* Mutant: five months before as_of, without going back to the first of the month.
InstallWindowByDay == DateText(AsOf - 5 * 31, FALSE) .. DateText(AsOf, FALSE)

\* From the first day of the month five months before as_of.
InstallWindow == DateText(FirstDay(Month(AsOf) - 5), FALSE) .. DateText(AsOf, FALSE)

ContaAberta(row) == LiberadaPJ(row) /\ row.dt_conta_criada \in ContasWindow

InstalacaoC6pay(row) == LiberadaPJ(row) /\ row.dt_install_maq \in InstallWindow

\* CAST to NUMERIC: the text "nan" is a number, greater than every other.
TpvReached(row) ==
  \/ row.tpv_m0 = NaN
  \/ row.tpv_m0 \notin Missing /\ row.tpv_m0 >= 5000

QualificacaoC6pay(row) ==
  /\ InstalacaoC6pay(row)
  /\ row.dt_cancelamento_maq \in {Null, Blank}
  /\ TpvReached(row)

\* The CAST of an empty string raises.
CastFails(row) == row.tpv_m0 = Blank

ContaQualificada(row) == row.fl_qualificado_comiss \in {"1", "1.0"}

\* Mutant: the NULL of the column is not looked at, and NOT IN leaves it out.
NuncaQualificouWithoutNull(row, wanted) ==
  row.fl_qualificado_comiss # Null /\ wanted = ~ContaQualificada(row)

\* The filter nunca_qualificou: _never_qualificou_condition or its negation.  IS
\* NULL comes first in the OR, so neither is ever unknown.
NuncaQualificou(row, wanted) ==
  wanted = (row.fl_qualificado_comiss = Null \/ ~ContaQualificada(row))

Is(written, d) == written.is = d

\* Mutant: the single read shows only clients LIBERADA.
GetByCnpjLiberada(d) == Is(asked[1], d) /\ StatusIs(table[d], "LIBERADA")

\* The single read asks for the first document.
GetByCnpj(d) == Is(asked[1], d)

\* Mutant: the batch takes part of a document for it, as the search does.
GetByDocumentosPartial(d) == \E i \in DOMAIN asked : d \in asked[i].within

\* cd_cpf_cnpj_cliente IN documentos.
GetByDocumentos(d) == \E i \in DOMAIN asked : Is(asked[i], d)

\* The search for the first document: ILIKE '%text%', of the text without the
\* spaces around it.
MatchesDocumento(d) == d \in asked[1].within

\* Rows of a statement.
Selected(statement) ==
  {d \in Documents : table[d] # None /\
     CASE statement = "contas_abertas"      -> ContaAberta(table[d])
       [] statement = "instalacao_c6pay"    -> InstalacaoC6pay(table[d])
       [] statement = "qualificacao_c6pay"  -> QualificacaoC6pay(table[d])
       [] statement = "contas_qualificadas" -> ContaQualificada(table[d])
       [] statement = "clientes"            -> TRUE
       [] statement = "clientes_true"       -> NuncaQualificou(table[d], TRUE)
       [] statement = "clientes_false"      -> NuncaQualificou(table[d], FALSE)
       [] statement = "empresas"            -> StatusIs(table[d], "LIBERADA")
       [] statement = "lote"                -> GetByDocumentos(d)
       [] statement = "lote_liberadas"      -> GetByDocumentos(d) /\ StatusIs(table[d], "LIBERADA")
       [] statement = "completo"            -> MatchesDocumento(d)
       [] statement = "detalhe"             -> GetByCnpj(d)}

-----------------------------------------------------------------------------
Todo == StatementsOf(req.path)[Len(req.got) + 1]
Finished == req.path # None /\ Len(req.got) = Len(StatementsOf(req.path))
Running == req.path # None /\ ~Finished

Start(path) ==
  /\ req = NoRequest /\ path \in Paths(view)
  /\ req' = [NoRequest EXCEPT !.path = path]
  /\ UNCHANGED <<view, asked, table, shown, changes>>

\* One statement.  PostgreSQL may evaluate the CAST of rows that another
\* condition leaves out, so such a row need not fail the statement but may.
Statement ==
  /\ Running
  /\ LET docs == Selected(IF Todo = "page" THEN req.path ELSE Todo)
     IN  /\ Todo = "qualificacao_c6pay" =>
              \A d \in Selected("instalacao_c6pay") :
                table[d].dt_cancelamento_maq \in {Null, Blank} => ~CastFails(table[d])
         /\ req' = [req EXCEPT !.got = Append(@, [docs |-> docs, at |-> changes])]
  /\ UNCHANGED <<view, asked, table, shown, changes>>

\* The first statement of a list that answers keeps the page; its total is the last.
ResultOf(answer) ==
  IF req.path = "indicadores"
  THEN req.got[CHOOSE i \in DOMAIN Indicators : Indicators[i] = answer]
  ELSE req.got[Len(req.got)]

\* The audit record, which only the indicators lack, is committed and the consumer
\* has the answer (404 where detalhe has found nothing).
Answer ==
  /\ Finished
  /\ shown' = [a \in Answers(view) |->
                 IF a = req.path \/ (req.path = "indicadores" /\ a \in ToSet(Indicators))
                 THEN ResultOf(a) ELSE shown[a]]
  /\ req' = NoRequest
  /\ UNCHANGED <<view, asked, table, changes>>

\* Mutant: the count that raised is answered with null.
IndicatorIsNull ==
  /\ Running /\ Todo = "qualificacao_c6pay"
  /\ \E d \in Documents : table[d] # None /\ CastFails(table[d])
  /\ req' = [req EXCEPT !.got = Append(@, None)]
  /\ UNCHANGED <<view, asked, table, shown, changes>>

\* The count casts the text of a row that has none: no indicator is answered.
IndicatorsFail ==
  /\ Running /\ Todo = "qualificacao_c6pay"
  /\ \E d \in Documents : table[d] # None /\ CastFails(table[d])
  /\ req' = NoRequest
  /\ UNCHANGED <<view, asked, table, shown, changes>>

\* A statement, the audit record's flush or the COMMIT fails.
RequestFails ==
  /\ req # NoRequest
  /\ req' = NoRequest
  /\ UNCHANGED <<view, asked, table, shown, changes>>

\* The ETL inserts, rewrites or removes a row.
EtlWrites(d, row) ==
  /\ changes < MaxChanges /\ changes' = changes + 1
  /\ row # table[d] /\ table' = [table EXCEPT ![d] = row]
  /\ UNCHANGED <<view, asked, req, shown>>

Next ==
  \/ \E path \in Paths(view) : Start(path)
  \/ Statement \/ Answer \/ IndicatorsFail \/ RequestFails
  \/ \E d \in Documents, row \in {None} \cup IF view = "consulta" THEN LookupClients ELSE Clients :
       EtlWrites(d, row)

Spec == Init /\ [][Next]_vars

-----------------------------------------------------------------------------
WasShown(answers) == \A a \in answers : shown[a] # None
Size(a) == Cardinality(shown[a].docs)
ChangesBetween(answers) ==
  LET times == {shown[a].at : a \in answers} IN Max(times) - Min(times)

AtMost(a, b) == WasShown({a, b}) => Size(a) <= Size(b) + ChangesBetween({a, b})

\* The numbers of a dashboard fit together, whichever of the requests is the
\* older one and although the indicators are four statements: each is off by no
\* more than the rows the ETL has changed in between.  Qualified machines are
\* installed ones, accounts counted are among the companies LIBERADA, and the two
\* answers to nunca_qualificou share out the clients, rows with NULL included
\* (clientes.py:61-66, visao_cliente_repository.py:39-44, 324-392).
DashboardAddsUp ==
  view = "indicadores" =>
    /\ AtMost("qualificacao_c6pay", "instalacao_c6pay")
    /\ AtMost("instalacao_c6pay", "empresas") /\ AtMost("contas_abertas", "empresas")
    /\ AtMost("contas_qualificadas", "clientes_false")
    /\ AtMost("clientes_false", "contas_qualificadas")
    /\ LET parts == {"clientes", "clientes_true", "clientes_false"}
       IN  WasShown(parts) =>
             (Size("clientes_true") + Size("clientes_false")) - Size("clientes")
               \in (0 - ChangesBetween(parts))..ChangesBetween(parts)

Day(text) == text \div 2

\* What the docstrings say each indicator counts.
Meant(indicator, row) ==
  CASE indicator = "contas_abertas" ->
         /\ LiberadaPJ(row) /\ row.dt_conta_criada \notin Missing
         /\ Month(Day(row.dt_conta_criada)) \div 12 = Month(AsOf) \div 12
         /\ Month(Day(row.dt_conta_criada)) % 12 <= 2
    [] indicator \in {"instalacao_c6pay", "qualificacao_c6pay"} ->
         /\ LiberadaPJ(row) /\ row.dt_install_maq \notin Missing
         /\ Month(Day(row.dt_install_maq)) + 5 >= Month(AsOf)
         /\ Day(row.dt_install_maq) <= AsOf
         /\ indicator = "qualificacao_c6pay" =>
              row.dt_cancelamento_maq \in Missing /\ row.tpv_m0 \notin Missing /\ row.tpv_m0 >= 5000
    [] indicator = "contas_qualificadas" -> row.fl_qualificado_comiss \in {"1", "1.0"}

\* The ETL may write "nan" for a missing value and a time behind a date.
Regular(row) ==
  /\ NaN \notin {row.tpv_m0, row.dt_cancelamento_maq}
  /\ \A date \in {row.dt_conta_criada, row.dt_install_maq} \ Missing : date % 2 = 0

\* Over rows without "nan" and without times the indicators count what their
\* docstrings say, to the day and at 5000 exactly (visao_cliente_repository.py:
\* 324-392).  Other rows may be counted or left out wrongly, and that the column of
\* contas_qualificadas is about the current month is up to the ETL.
IndicatorsCountWhatTheySay ==
  view = "indicadores" =>
    \A a \in ToSet(Indicators) : WasShown({a}) /\ shown[a].at = changes =>
      \A d \in Documents : table[d] # None /\ Regular(table[d]) =>
        (d \in shown[a].docs <=> Meant(a, table[d]))

\* not_found of the batch: the places of the documents of which, as they were
\* written, no row was found.
NotFound(answer) == {i \in DOMAIN asked : \A d \in shown[answer].docs : ~Is(asked[i], d)}

\* The consumer can tell from the totals whether every document of the batch was
\* found: found and not found make up the batch, unless a document that was found
\* is in it twice (clientes.py:301-330).
BatchTotalsAddUp ==
  \A a \in {"lote", "lote_liberadas"} : view = "consulta" /\ WasShown({a}) =>
    /\ Size(a) + Cardinality(NotFound(a)) <= Len(asked)
    /\ Size(a) + Cardinality(NotFound(a)) < Len(asked) <=>
         asked[1].is = asked[2].is /\ \E d \in shown[a].docs : Is(asked[1], d)

\* While the ETL changes nothing, the batch, the search by document and the single
\* read agree on whether a document exists that is written as the table has it
\* (clientes.py:157-245, 294-354).  The search may find others, which contain the
\* text: of a text that is no document it alone finds something.  Of the search the
\* rows count that make up its total, on whatever page they come.
LookupsAgree ==
  view = "consulta" =>
    \A a, b \in {"lote", "completo", "detalhe"} :
      WasShown({a, b}) /\ shown[a].at = shown[b].at =>
        (asked[1].is \in shown[a].docs <=> asked[1].is \in shown[b].docs)
=============================================================================
