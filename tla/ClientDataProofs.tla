---------------------------- MODULE ClientDataProofs ----------------------------
(***************************************************************************)
(* Theorems about ClientData for any number of documents, rows and changes *)
(* of the ETL.                                                             *)
(*                                                                         *)
(* The answers a consumer compares come from statements that ran at        *)
(* different times.  The invariant is about all results that are known of  *)
(* a statement: what was shown, what the request in flight has got, and    *)
(* what the statement would return now.  Results that are new join as the  *)
(* last kind, and a change of the ETL moves only that one, by one row.     *)
(***************************************************************************)
EXTENDS ClientData, FiniteSetTheorems, SequenceTheorems, TLAPS

\* The statement of a list's page selects what its total counts.
StatementAt(i) ==
  LET s == StatementsOf(req.path)[i] IN IF s = "page" THEN req.path ELSE s

Now(s) == [docs |-> Selected(s), at |-> changes]

\* Results that were shown or that the request in flight has got.
Past(s) == ({shown[a] : a \in {s} \cap Answers(view)} \ {None})
             \cup {req.got[i] : i \in {k \in DOMAIN req.got : req.path # None /\ StatementAt(k) = s}}

Known(s) == {Now(s)} \cup Past(s)

Rows(r) == Cardinality(r.docs)

\* The first result counts at most the rows of the second, and one more for every
\* change between them.
Fits(r, q) ==
  \A lo \in 0..MaxChanges : \A hi \in 0..MaxChanges :
    {r.at, q.at} \subseteq lo..hi => Rows(r) <= Rows(q) + (hi - lo)

\* Two results share out the rows of a third.
Splits(t, f, c) ==
  \A lo \in 0..MaxChanges : \A hi \in 0..MaxChanges :
    {t.at, f.at, c.at} \subseteq lo..hi =>
      /\ Rows(t) + Rows(f) <= Rows(c) + (hi - lo)
      /\ Rows(c) <= Rows(t) + Rows(f) + (hi - lo)

\* Statements of which the first never selects a row that the second does not.
Within == {<<"qualificacao_c6pay", "instalacao_c6pay">>, <<"instalacao_c6pay", "empresas">>,
           <<"contas_abertas", "empresas">>, <<"contas_qualificadas", "clientes_false">>,
           <<"clientes_false", "contas_qualificadas">>, <<"clientes", "clientes">>,
           <<"clientes_true", "clientes_true">>, <<"clientes_false", "clientes_false">>}

Lookups == {"lote", "completo", "detalhe"}

\* The first document that is looked up was found.
Found(s, r) == asked[1].is \in r.docs

ResultOK(s, r) ==
  /\ r \in Result /\ r.at <= changes
  /\ r.at = changes => r.docs = Selected(s)
  /\ s \in {"lote", "lote_liberadas"} => \A d \in r.docs : GetByDocumentos(d)

AskedOK == view = "consulta" => asked \in Seq(Written) /\ Len(asked) = 2

ResultsOK == \A s \in Answers(view) : \A r \in Known(s) : ResultOK(s, r)

ResultsFit ==
  \A p \in Within : \A r \in Known(p[1]) : \A q \in Known(p[2]) : Fits(r, q)

ResultsSplit ==
  \A t \in Known("clientes_true") : \A f \in Known("clientes_false") :
    \A c \in Known("clientes") : Splits(t, f, c)

LookupsFit ==
  view = "consulta" =>
    \A s \in Lookups : \A u \in Lookups : \A r \in Known(s) : \A q \in Known(u) :
      r.at = q.at => (Found(s, r) <=> Found(u, q))

IInv == TypeOK /\ AskedOK /\ ResultsOK /\ ResultsFit /\ ResultsSplit /\ LookupsFit

-----------------------------------------------------------------------------
\* A row of the table is a client.
LEMMA RowIsClient ==
  ASSUME TypeOK, NEW d \in Documents, table[d] # None
  PROVE  table[d] \in Client
  BY DEF TypeOK

\* A statement selects finitely many documents, all of rows there are.
LEMMA SelectedFinite ==
  ASSUME NEW s
  PROVE  /\ Selected(s) \subseteq Documents /\ IsFiniteSet(Selected(s))
         /\ Cardinality(Selected(s)) \in Nat
         /\ \A d \in Selected(s) : table[d] # None
  <1>1. Selected(s) \in SUBSET Documents /\ \A d \in Selected(s) : table[d] # None
    BY DEF Selected
  <1>2. IsFiniteSet(Selected(s))
    BY <1>1, FS_Subset, ConstantsAssumption
  <1>3. QED BY <1>1, <1>2, FS_CardinalityType

\* At one time the qualified machines are installed ones, these and the accounts
\* opened are among the companies LIBERADA, and the clients that did qualify are
\* those that the filter nunca_qualificou=false finds.
LEMMA SelectedWithin ==
  ASSUME TypeOK, NEW p \in Within
  PROVE  Selected(p[1]) \subseteq Selected(p[2])
  <1>1. CASE p = <<"qualificacao_c6pay", "instalacao_c6pay">>
    BY <1>1 DEF Selected, QualificacaoC6pay
  <1>2. CASE p = <<"instalacao_c6pay", "empresas">>
    BY <1>2 DEF Selected, InstalacaoC6pay, LiberadaPJ, StatusIs
  <1>3. CASE p = <<"contas_abertas", "empresas">>
    BY <1>3 DEF Selected, ContaAberta, LiberadaPJ, StatusIs
  <1>4. CASE p = <<"contas_qualificadas", "clientes_false">>
    BY <1>4, ConstantsAssumption DEF Missing, Selected, ContaQualificada, NuncaQualificou
  <1>5. CASE p = <<"clientes_false", "contas_qualificadas">>
    BY <1>5 DEF Selected, NuncaQualificou
  <1>6. CASE p[1] = p[2]
    BY <1>6
  <1>7. QED BY <1>1, <1>2, <1>3, <1>4, <1>5, <1>6 DEF Within

\* At one time the two answers to nunca_qualificou share out the clients.
LEMMA SelectedSplit ==
  Cardinality(Selected("clientes_true")) + Cardinality(Selected("clientes_false"))
    = Cardinality(Selected("clientes"))
  <1> DEFINE T == Selected("clientes_true")
             F == Selected("clientes_false")
             C == Selected("clientes")
  <1>1. \A d \in Documents : NuncaQualificou(table[d], TRUE) <=> ~NuncaQualificou(table[d], FALSE)
    BY DEF NuncaQualificou
  <1>2. T \cup F = C
    BY <1>1 DEF Selected
  <1>3. T \cap F = {}
    BY <1>1 DEF Selected
  <1>4. IsFiniteSet(T) /\ IsFiniteSet(F) /\ Cardinality(T) \in Nat /\ Cardinality(F) \in Nat
    BY SelectedFinite
  <1> HIDE DEF T, F, C
  <1>5. Cardinality(T \cup F) = Cardinality(T) + Cardinality(F) - Cardinality(T \cap F)
    BY <1>4, FS_Union
  <1>6. Cardinality(T \cap F) = 0
    BY <1>3, FS_EmptySet
  <1>7. Cardinality(C) = Cardinality(T) + Cardinality(F)
    <2>1. PICK x \in Nat : x = Cardinality(T)
      BY <1>4
    <2>2. PICK y \in Nat : y = Cardinality(F)
      BY <1>4
    <2>3. Cardinality(C) = x + y - 0
      BY <1>2, <1>5, <1>6, <2>1, <2>2
    <2>4. QED BY <2>1, <2>2, <2>3
  <1>8. QED BY <1>7 DEF T, F, C

\* A change of the ETL moves what a statement selects by one row at most.
LEMMA EtlMovesOne ==
  ASSUME NEW e \in Documents, NEW row, EtlWrites(e, row), NEW s,
         table \in [Documents -> Client \cup {None}]
  PROVE  /\ Cardinality(Selected(s)') \in Nat
         /\ Cardinality(Selected(s)') <= Cardinality(Selected(s)) + 1
         /\ Cardinality(Selected(s)) <= Cardinality(Selected(s)') + 1
  <1> DEFINE before == Selected(s)
             after == Selected(s)'
  <1>1. /\ asked' = asked /\ \A d \in Documents \ {e} : table'[d] = table[d]
        /\ after \subseteq Documents
    BY DEF EtlWrites, Selected
  <1>2. \A d \in Documents \ {e} : d \in after <=> d \in before
    BY <1>1 DEF Selected, ContaAberta, InstalacaoC6pay, QualificacaoC6pay, ContaQualificada,
                NuncaQualificou, StatusIs, GetByDocumentos, MatchesDocumento, GetByCnpj
  <1>3. IsFiniteSet(before) /\ before \subseteq Documents /\ Cardinality(before) \in Nat
    BY SelectedFinite
  <1> HIDE DEF before, after
  <1>4. after \in SUBSET (before \cup {e}) /\ before \in SUBSET (after \cup {e})
    BY <1>1, <1>2, <1>3
  <1>5. IsFiniteSet(after) /\ Cardinality(after) \in Nat
    <2>1. after \in SUBSET Documents /\ IsFiniteSet(Documents)
      BY <1>1, ConstantsAssumption
    <2>2. QED BY <2>1, FS_Subset, FS_CardinalityType
  <1>6. /\ IsFiniteSet(before \cup {e}) /\ Cardinality(before \cup {e}) <= Cardinality(before) + 1
        /\ IsFiniteSet(after \cup {e}) /\ Cardinality(after \cup {e}) <= Cardinality(after) + 1
    <2>1. /\ IsFiniteSet(before \cup {e})
          /\ Cardinality(before \cup {e}) \in {Cardinality(before), Cardinality(before) + 1}
      BY <1>3, FS_AddElement
    <2>2. /\ IsFiniteSet(after \cup {e})
          /\ Cardinality(after \cup {e}) \in {Cardinality(after), Cardinality(after) + 1}
      BY <1>5, FS_AddElement
    <2>3. QED BY <1>3, <1>5, <2>1, <2>2
  <1>7. /\ Cardinality(after) <= Cardinality(before \cup {e})
        /\ Cardinality(before) <= Cardinality(after \cup {e})
    BY <1>4, <1>6, FS_Subset
  <1>8. Cardinality(before \cup {e}) \in Nat /\ Cardinality(after \cup {e}) \in Nat
    BY <1>6, FS_CardinalityType
  <1>9. QED BY <1>3, <1>5, <1>6, <1>7, <1>8 DEF before, after

\* What the statements would return now.
CurrentFits ==
  /\ \A s : ResultOK(s, Now(s))
  /\ \A p \in Within : Fits(Now(p[1]), Now(p[2]))
  /\ Splits(Now("clientes_true"), Now("clientes_false"), Now("clientes"))
  /\ view = "consulta" =>
       \A s \in Lookups : \A u \in Lookups : Found(s, Now(s)) <=> Found(u, Now(u))

\* What the statements return at one time fits together.
LEMMA NowFits == TypeOK /\ AskedOK => CurrentFits
  <1> SUFFICES ASSUME TypeOK, AskedOK
               PROVE  CurrentFits
    OBVIOUS
  <1>1. changes \in 0..MaxChanges /\ MaxChanges \in Nat
    BY ConstantsAssumption DEF TypeOK
  <1>2. \A s : Now(s).docs = Selected(s) /\ Now(s).at = changes /\ Now(s) \in Result
    BY <1>1, SelectedFinite DEF Now, Result
  <1>3. ASSUME NEW s, s \in {"lote", "lote_liberadas"}, NEW d \in Selected(s)
        PROVE  GetByDocumentos(d)
    BY <1>3 DEF Selected
  <1>4. \A s : ResultOK(s, Now(s))
    BY <1>1, <1>2, <1>3 DEF ResultOK
  <1>5. ASSUME NEW p \in Within PROVE Fits(Now(p[1]), Now(p[2]))
    <2>1. Selected(p[1]) \in SUBSET Selected(p[2])
      BY SelectedWithin
    <2>2. Cardinality(Selected(p[1])) <= Cardinality(Selected(p[2]))
      BY <2>1, SelectedFinite, FS_Subset
    <2>3. Cardinality(Selected(p[1])) \in Nat /\ Cardinality(Selected(p[2])) \in Nat
      BY SelectedFinite
    <2>4. QED BY <1>1, <1>2, <2>2, <2>3 DEF Fits, Rows
  <1>6. Splits(Now("clientes_true"), Now("clientes_false"), Now("clientes"))
    <2>1. /\ Rows(Now("clientes_true")) \in Nat /\ Rows(Now("clientes_false")) \in Nat
          /\ Rows(Now("clientes_true")) + Rows(Now("clientes_false")) = Rows(Now("clientes"))
      BY <1>2, SelectedFinite, SelectedSplit DEF Rows
    <2>2. QED BY <1>1, <1>2, <2>1 DEF Splits
  <1>7. ASSUME view = "consulta", NEW s \in Lookups
        PROVE  Found(s, Now(s)) <=> asked[1].is \in Documents /\ table[asked[1].is] # None
    <2>1. /\ asked \in Seq(Written) /\ 1 \in DOMAIN asked
          /\ asked[1].is \in Documents => asked[1].is \in asked[1].within
      <3>1. asked \in Seq(Written) /\ 1 \in DOMAIN asked /\ asked[1] \in Written
        BY <1>7 DEF AskedOK
      <3>2. QED BY <3>1, ConstantsAssumption DEF Written
    <2>2. PICK e : e = asked[1].is
      OBVIOUS
    <2>3. ASSUME NEW d \in Documents, d = e
          PROVE  GetByDocumentos(d) /\ MatchesDocumento(d) /\ GetByCnpj(d)
      BY <2>1, <2>2, <2>3 DEF GetByDocumentos, MatchesDocumento, GetByCnpj, Is
    <2>4. e \in Selected(s) <=> e \in Documents /\ table[e] # None
      <3>1. CASE s = "lote"
        BY <2>3, <3>1 DEF Selected
      <3>2. CASE s = "completo"
        BY <2>3, <3>2 DEF Selected
      <3>3. CASE s = "detalhe"
        BY <2>3, <3>3 DEF Selected
      <3>4. QED BY <3>1, <3>2, <3>3 DEF Lookups
    <2>5. Found(s, Now(s)) <=> e \in Selected(s)
      BY <1>2, <2>2 DEF Found
    <2>6. QED BY <2>2, <2>4, <2>5
  <1>8. QED BY <1>4, <1>5, <1>6, <1>7 DEF CurrentFits

\* And it does after a step.
LEMMA NextFits == TypeOK' /\ AskedOK' => CurrentFits'
  BY NowFits, PTL

\* Where a step leaves the table alone and brings no result that was not known, the
\* invariant is kept.
LEMMA RequestKept ==
  ASSUME IInv, UNCHANGED <<view, asked, table, changes>>, TypeOK',
         \A s : Past(s)' \subseteq Known(s)
  PROVE  IInv'
  <1>1. \A s : Selected(s)' = Selected(s)
    BY DEF Selected, ContaAberta, InstalacaoC6pay, QualificacaoC6pay, ContaQualificada,
           NuncaQualificou, StatusIs, GetByDocumentos, MatchesDocumento, GetByCnpj
  <1>2. \A s : Known(s)' \subseteq Known(s)
    BY <1>1 DEF Known, Now
  <1>3. AskedOK'
    BY DEF IInv, AskedOK
  <1>4. ResultsOK'
    <2> SUFFICES ASSUME NEW s \in Answers(view), NEW r \in Known(s)
                 PROVE  ResultOK(s, r)'
      BY <1>2 DEF ResultsOK, Answers, Paths
    <2>1. ResultOK(s, r)
      BY DEF IInv, ResultsOK
    <2>2. QED BY <1>1, <2>1 DEF ResultOK, GetByDocumentos
  <1>5. ResultsFit'
    BY <1>2 DEF IInv, ResultsFit
  <1>6. ResultsSplit'
    BY <1>2 DEF IInv, ResultsSplit
  <1>7. LookupsFit'
    BY <1>2 DEF IInv, LookupsFit, Found
  <1>8. QED BY <1>3, <1>4, <1>5, <1>6, <1>7 DEF IInv

-----------------------------------------------------------------------------
\* The statements of a request: those of the indicators, or the one that the path
\* names, after the page where there is one.
LEMMA Statements ==
  ASSUME TypeOK, req.path # None
  PROVE  /\ Len(StatementsOf(req.path)) \in Nat
         /\ DOMAIN StatementsOf(req.path) = 1..Len(StatementsOf(req.path))
         /\ req.path = "indicadores" => StatementsOf(req.path) = Indicators
         /\ req.path # "indicadores" =>
              /\ Len(StatementsOf(req.path)) \in {1, 2}
              /\ StatementsOf(req.path)[Len(StatementsOf(req.path))] = req.path
              /\ \A i \in DOMAIN StatementsOf(req.path) : StatementsOf(req.path)[i] \in {"page", req.path}
  <1>1. CASE req.path = "indicadores"
    BY <1>1 DEF StatementsOf, Indicators
  <1>2. CASE req.path \in {"lote", "lote_liberadas", "detalhe"}
    BY <1>2 DEF StatementsOf
  <1>3. CASE req.path \in {"completo", "clientes", "clientes_true", "clientes_false", "empresas"}
    <2>1. /\ req.path # "indicadores" /\ req.path \notin {"lote", "lote_liberadas", "detalhe"}
      BY <1>3
    <2>2. StatementsOf(req.path) = <<"page", req.path>>
      BY <2>1 DEF StatementsOf
    <2>3. QED BY <2>1, <2>2
  <1>4. QED BY <1>1, <1>2, <1>3 DEF TypeOK, Paths

\* A request that starts has got nothing.
LEMMA StartKeeps ==
  ASSUME IInv, NEW path \in Paths(view), Start(path)
  PROVE  IInv'
  <1>1. TypeOK /\ req'.got = <<>> /\ req'.path = path
        /\ req' = [path |-> path, got |-> <<>>]
    BY DEF IInv, Start, NoRequest
  <1>2. TypeOK'
    <2>1. req' \in [path : Paths(view) \cup {None}, got : Seq(Result)]
      BY <1>1
    <2>2. Len(req'.got) <= Len(StatementsOf(req'.path))
      <3>1. CASE path = "indicadores"
        BY <1>1, <3>1 DEF StatementsOf, Indicators
      <3>2. CASE path \in {"lote", "lote_liberadas", "detalhe"}
        BY <1>1, <3>2 DEF StatementsOf
      <3>3. CASE path \in {"completo", "clientes", "clientes_true", "clientes_false", "empresas"}
        BY <1>1, <3>3 DEF StatementsOf
      <3>4. QED BY <3>1, <3>2, <3>3 DEF Paths
    <2>3. QED BY <1>1, <2>1, <2>2 DEF TypeOK, Start, Paths, Answers
  <1>3. \A s : Past(s)' \subseteq Known(s)
    BY <1>1 DEF Past, Known, Start, Answers, Paths
  <1>4. QED BY <1>2, <1>3, RequestKept DEF Start

\* What a statement returns is what it returned now.
LEMMA StatementKeeps ==
  ASSUME IInv, Statement
  PROVE  IInv'
  <1> DEFINE n == Len(req.got) + 1
             x == StatementAt(n)
  <1>1. /\ TypeOK /\ AskedOK /\ req.path # None /\ req.got \in Seq(Result)
        /\ req.path \in Paths(view)
        /\ Len(req.got) \in Nat /\ Len(req.got) < Len(StatementsOf(req.path))
    <2>1. TypeOK /\ AskedOK /\ req.path # None /\ req.got \in Seq(Result)
          /\ Len(req.got) # Len(StatementsOf(req.path))
      BY DEF IInv, TypeOK, Statement, Running, Finished
    <2>2. Len(StatementsOf(req.path)) \in Nat
      BY <2>1, Statements
    <2>3. QED BY <2>1, <2>2 DEF TypeOK
  <1>2. req' = [path |-> req.path, got |-> Append(req.got, Now(x))]
    BY <1>1 DEF Statement, Todo, StatementAt, Now, TypeOK
  <1>3. Now(x) \in Result
    BY <1>1, NowFits DEF CurrentFits, ResultOK
  <1>5. /\ Append(req.got, Now(x)) \in Seq(Result)
        /\ Len(Append(req.got, Now(x))) = n
        /\ \A i \in 1..Len(req.got) : Append(req.got, Now(x))[i] = req.got[i]
        /\ Append(req.got, Now(x))[n] = Now(x)
    BY <1>1, <1>3
  <1>6. TypeOK'
    <2>1. req' \in [path : Paths(view) \cup {None}, got : Seq(Result)]
      BY <1>1, <1>2, <1>5
    <2>2. Len(req'.got) <= Len(StatementsOf(req'.path))
      BY <1>1, <1>2, <1>5, Statements
    <2>3. QED BY <1>1, <2>1, <2>2 DEF TypeOK, Statement, Paths, Answers
  <1>7. ASSUME NEW s PROVE Past(s)' \subseteq Known(s)
    <2> SUFFICES ASSUME NEW r \in Past(s)' PROVE r \in Known(s)
      OBVIOUS
    <2>1. CASE r \in {shown[a] : a \in {s} \cap Answers(view)} \ {None}
      BY <2>1 DEF Known, Past
    <2>2. CASE \E i \in DOMAIN req'.got : StatementAt(i)' = s /\ r = req'.got[i]
      <3>1. PICK i \in DOMAIN req'.got : StatementAt(i)' = s /\ r = req'.got[i]
        BY <2>2
      <3>2. StatementAt(i) = s
        BY <1>2, <3>1 DEF StatementAt
      <3>3. i \in 1..n
        BY <1>2, <1>5, <3>1
      <3>4. CASE i = n
        BY <1>2, <1>5, <3>1, <3>2, <3>4 DEF Known
      <3>5. CASE i \in 1..Len(req.got)
        BY <1>1, <1>2, <1>5, <3>1, <3>2, <3>5 DEF Known, Past
      <3>6. QED BY <1>1, <3>3, <3>4, <3>5
    <2>3. QED BY <2>1, <2>2 DEF Past, Statement, Answers, Paths
  <1>8. QED BY <1>6, <1>7, RequestKept DEF Statement

\* A request that is given up leaves what was shown.
LEMMA GivenUpKeeps ==
  ASSUME IInv, IndicatorsFail \/ RequestFails
  PROVE  IInv'
  <1>1. /\ TypeOK /\ req' = [path |-> None, got |-> <<>>]
        /\ UNCHANGED <<view, asked, table, shown, changes>>
    BY DEF IInv, IndicatorsFail, RequestFails, NoRequest
  <1>2. TypeOK'
    BY <1>1 DEF TypeOK, Paths, Answers
  <1>3. \A s : Past(s)' \subseteq Known(s)
    BY <1>1 DEF Past, Known, Answers, Paths
  <1>4. QED BY <1>1, <1>2, <1>3, RequestKept

\* What an answer shows of a statement is what the request has got of it.
LEMMA AnswerIsGot ==
  ASSUME TypeOK, Finished, NEW a \in Answers(view),
         a = req.path \/ (req.path = "indicadores" /\ a \in ToSet(Indicators))
  PROVE  \E i \in DOMAIN req.got : StatementAt(i) = a /\ ResultOf(a) = req.got[i]
  <1>1. /\ req.path # None /\ req.got \in Seq(Result)
        /\ Len(req.got) = Len(StatementsOf(req.path))
    BY DEF TypeOK, Finished
  <1>2. CASE req.path = "indicadores"
    <2> DEFINE i == CHOOSE k \in DOMAIN Indicators : Indicators[k] = a
    <2>1. a \in ToSet(Indicators)
      BY <1>2 DEF TypeOK, Answers, Paths
    <2>2. i \in DOMAIN Indicators /\ Indicators[i] = a
      BY <2>1 DEF ToSet
    <2>3. StatementsOf(req.path) = Indicators
      BY <1>1, <1>2, Statements
    <2>4. i \in DOMAIN req.got
      BY <1>1, <2>2, <2>3 DEF Indicators
    <2>5. a # "page"
      BY <2>1 DEF ToSet, Indicators
    <2>6. StatementAt(i) = a
      BY <2>2, <2>3, <2>5 DEF StatementAt
    <2>7. ResultOf(a) = req.got[i]
      BY <1>2 DEF ResultOf
    <2>8. QED BY <2>4, <2>6, <2>7
  <1>3. CASE req.path # "indicadores"
    <2>1. /\ Len(req.got) \in {1, 2} /\ StatementsOf(req.path)[Len(req.got)] = req.path
          /\ a = req.path
      BY <1>1, <1>3, Statements
    <2>2. Len(req.got) \in DOMAIN req.got /\ ResultOf(a) = req.got[Len(req.got)]
      BY <1>1, <1>3, <2>1 DEF ResultOf
    <2>3. req.path # "page"
      BY <1>1 DEF TypeOK, Paths
    <2>4. StatementAt(Len(req.got)) = a
      BY <2>1, <2>3 DEF StatementAt
    <2>5. QED BY <2>2, <2>4
  <1>4. QED BY <1>2, <1>3

\* An answer shows nothing that was not known.
LEMMA AnswerKeeps ==
  ASSUME IInv, Answer
  PROVE  IInv'
  <1>1. /\ TypeOK /\ Finished /\ req' = [path |-> None, got |-> <<>>]
        /\ UNCHANGED <<view, asked, table, changes>>
    BY DEF IInv, Answer, NoRequest
  <1> DEFINE Answered(a) == a = req.path \/ (req.path = "indicadores" /\ a \in ToSet(Indicators))
  <1>2. shown' = [a \in Answers(view) |-> IF Answered(a) THEN ResultOf(a) ELSE shown[a]]
    BY DEF Answer
  <1>3. ASSUME NEW a \in Answers(view), Answered(a)
        PROVE  ResultOf(a) \in Past(a) /\ ResultOf(a) \in Result
    <2>1. PICK i \in DOMAIN req.got : StatementAt(i) = a /\ ResultOf(a) = req.got[i]
      BY <1>1, <1>3, AnswerIsGot
    <2>2. req.got \in Seq(Result)
      BY <1>1 DEF TypeOK
    <2>3. req.path # None
      BY <1>1 DEF Finished
    <2>4. QED BY <2>1, <2>2, <2>3 DEF Past
  <1> HIDE DEF Answered
  <1>4. TypeOK'
    <2>1. shown' \in [Answers(view) -> Result \cup {None}]
      BY <1>1, <1>2, <1>3 DEF TypeOK
    <2>2. QED BY <1>1, <2>1 DEF TypeOK, Paths, Answers
  <1>5. Answers(view)' = Answers(view)
    BY <1>1 DEF Answers, Paths
  <1>6. ASSUME NEW s PROVE Past(s)' \subseteq Known(s)
    <2> SUFFICES ASSUME NEW r \in Past(s)' PROVE r \in Known(s)
      OBVIOUS
    <2>1. s \in Answers(view) /\ r = shown'[s] /\ r # None
      BY <1>1, <1>5 DEF Past
    <2>2. CASE Answered(s)
      BY <1>2, <1>3, <2>1, <2>2 DEF Known
    <2>3. CASE ~Answered(s)
      BY <1>2, <2>1, <2>3 DEF Known, Past
    <2>4. QED BY <2>2, <2>3
  <1>7. QED BY <1>1, <1>4, <1>6, RequestKept

-----------------------------------------------------------------------------
\* What is known of a statement after a change of the ETL: what was known before of
\* earlier times, and what it returns now.
LEMMA EtlKnown ==
  ASSUME NEW e \in Documents, NEW row, EtlWrites(e, row), NEW s
  PROVE  Known(s)' = {[docs |-> Selected(s)', at |-> changes + 1]} \cup Past(s)
  <1>1. Past(s)' = Past(s)
    BY DEF EtlWrites, Past, StatementAt, Answers, Paths
  <1>2. Now(s)' = [docs |-> Selected(s)', at |-> changes + 1]
    BY DEF EtlWrites, Now
  <1>3. QED BY <1>1, <1>2 DEF Known

\* The numbers of the rows of results are numbers.
LEMMA RowsAreNumbers ==
  ASSUME NEW r \in Result
  PROVE  Rows(r) \in Nat
  <1>1. r.docs \in SUBSET Documents
    BY DEF Result
  <1>2. QED BY <1>1, FS_Subset, FS_CardinalityType, ConstantsAssumption DEF Rows

\* A result that fits, or shares out rows with, one that is not older does so with
\* the one that a single change puts in its place.
LEMMA LaterFits ==
  ASSUME NEW r \in Result, NEW q \in Result, NEW n \in Result,
         n.at = q.at + 1, r.at <= q.at, Rows(n) <= Rows(q) + 1, Rows(q) <= Rows(n) + 1
  PROVE  /\ Fits(r, q) => Fits(r, n)
         /\ Fits(q, r) => Fits(n, r)
  <1>1. /\ r.at \in Nat /\ q.at \in Nat /\ n.at \in Nat /\ MaxChanges \in Nat
        /\ Rows(r) \in Nat /\ Rows(q) \in Nat /\ Rows(n) \in Nat
    BY RowsAreNumbers, ConstantsAssumption DEF Result
  <1>2. ASSUME NEW lo \in 0..MaxChanges, NEW hi \in 0..MaxChanges, {r.at, n.at} \subseteq lo..hi
        PROVE  hi - 1 \in 0..MaxChanges /\ {r.at, q.at} \subseteq lo..(hi - 1)
    BY <1>1, <1>2
  <1>3. ASSUME Fits(r, q) PROVE Fits(r, n)
    <2> SUFFICES ASSUME NEW lo \in 0..MaxChanges, NEW hi \in 0..MaxChanges, {r.at, n.at} \subseteq lo..hi
                 PROVE  Rows(r) <= Rows(n) + (hi - lo)
      BY DEF Fits
    <2>1. Rows(r) <= Rows(q) + ((hi - 1) - lo)
      BY <1>2, <1>3 DEF Fits
    <2>2. QED BY <1>1, <2>1
  <1>4. ASSUME Fits(q, r) PROVE Fits(n, r)
    <2> SUFFICES ASSUME NEW lo \in 0..MaxChanges, NEW hi \in 0..MaxChanges, {r.at, n.at} \subseteq lo..hi
                 PROVE  Rows(n) <= Rows(r) + (hi - lo)
      BY DEF Fits
    <2>1. Rows(q) <= Rows(r) + ((hi - 1) - lo)
      BY <1>2, <1>4 DEF Fits
    <2>2. QED BY <1>1, <2>1
  <1>5. QED BY <1>3, <1>4

LEMMA LaterSplits ==
  ASSUME NEW r \in Result, NEW u \in Result, NEW q \in Result, NEW n \in Result,
         n.at = q.at + 1, r.at <= q.at, u.at <= q.at,
         Rows(n) <= Rows(q) + 1, Rows(q) <= Rows(n) + 1
  PROVE  /\ Splits(q, r, u) => Splits(n, r, u)
         /\ Splits(r, q, u) => Splits(r, n, u)
         /\ Splits(r, u, q) => Splits(r, u, n)
  <1>1. /\ r.at \in Nat /\ u.at \in Nat /\ q.at \in Nat /\ n.at \in Nat /\ MaxChanges \in Nat
        /\ Rows(r) \in Nat /\ Rows(u) \in Nat /\ Rows(q) \in Nat /\ Rows(n) \in Nat
    BY RowsAreNumbers, ConstantsAssumption DEF Result
  <1>2. ASSUME NEW lo \in 0..MaxChanges, NEW hi \in 0..MaxChanges, {r.at, u.at, n.at} \subseteq lo..hi
        PROVE  hi - 1 \in 0..MaxChanges /\ {r.at, u.at, q.at} \subseteq lo..(hi - 1)
    BY <1>1, <1>2
  <1>3. ASSUME Splits(q, r, u) PROVE Splits(n, r, u)
    <2> SUFFICES ASSUME NEW lo \in 0..MaxChanges, NEW hi \in 0..MaxChanges, {n.at, r.at, u.at} \subseteq lo..hi
                 PROVE  /\ Rows(n) + Rows(r) <= Rows(u) + (hi - lo)
                        /\ Rows(u) <= Rows(n) + Rows(r) + (hi - lo)
      BY DEF Splits
    <2>1. /\ Rows(q) + Rows(r) <= Rows(u) + ((hi - 1) - lo)
          /\ Rows(u) <= Rows(q) + Rows(r) + ((hi - 1) - lo)
      BY <1>2, <1>3 DEF Splits
    <2>2. QED BY <1>1, <2>1
  <1>4. ASSUME Splits(r, q, u) PROVE Splits(r, n, u)
    <2> SUFFICES ASSUME NEW lo \in 0..MaxChanges, NEW hi \in 0..MaxChanges, {r.at, n.at, u.at} \subseteq lo..hi
                 PROVE  /\ Rows(r) + Rows(n) <= Rows(u) + (hi - lo)
                        /\ Rows(u) <= Rows(r) + Rows(n) + (hi - lo)
      BY DEF Splits
    <2>1. /\ Rows(r) + Rows(q) <= Rows(u) + ((hi - 1) - lo)
          /\ Rows(u) <= Rows(r) + Rows(q) + ((hi - 1) - lo)
      BY <1>2, <1>4 DEF Splits
    <2>2. QED BY <1>1, <2>1
  <1>5. ASSUME Splits(r, u, q) PROVE Splits(r, u, n)
    <2> SUFFICES ASSUME NEW lo \in 0..MaxChanges, NEW hi \in 0..MaxChanges, {r.at, u.at, n.at} \subseteq lo..hi
                 PROVE  /\ Rows(r) + Rows(u) <= Rows(n) + (hi - lo)
                        /\ Rows(n) <= Rows(r) + Rows(u) + (hi - lo)
      BY DEF Splits
    <2>1. /\ Rows(r) + Rows(u) <= Rows(q) + ((hi - 1) - lo)
          /\ Rows(q) <= Rows(r) + Rows(u) + ((hi - 1) - lo)
      BY <1>2, <1>5 DEF Splits
    <2>2. QED BY <1>1, <2>1
  <1>6. QED BY <1>3, <1>4, <1>5

\* Two results of one time and one of another share out the rows where the third
\* fits, in both directions, what its statement returns at the time of the two.
LEMMA TwoOfOneTime ==
  ASSUME NEW t \in Result, NEW f \in Result, NEW c \in Result, NEW old \in Result,
         t.at = c.at, f.at = c.at, Rows(t) + Rows(f) = Rows(c)
  PROVE  /\ Fits(t, old) /\ Fits(old, t) => Splits(old, f, c)
         /\ Fits(f, old) /\ Fits(old, f) => Splits(t, old, c)
         /\ Fits(c, old) /\ Fits(old, c) => Splits(t, f, old)
  <1>1. Rows(t) \in Nat /\ Rows(f) \in Nat /\ Rows(c) \in Nat /\ Rows(old) \in Nat /\ MaxChanges \in Nat
    BY RowsAreNumbers, ConstantsAssumption
  <1>2. ASSUME Fits(t, old), Fits(old, t) PROVE Splits(old, f, c)
    <2> SUFFICES ASSUME NEW lo \in 0..MaxChanges, NEW hi \in 0..MaxChanges, {old.at, f.at, c.at} \subseteq lo..hi
                 PROVE  /\ Rows(old) + Rows(f) <= Rows(c) + (hi - lo)
                        /\ Rows(c) <= Rows(old) + Rows(f) + (hi - lo)
      BY DEF Splits
    <2>1. Rows(t) <= Rows(old) + (hi - lo) /\ Rows(old) <= Rows(t) + (hi - lo)
      BY <1>2 DEF Fits
    <2>2. QED BY <1>1, <2>1
  <1>3. ASSUME Fits(f, old), Fits(old, f) PROVE Splits(t, old, c)
    <2> SUFFICES ASSUME NEW lo \in 0..MaxChanges, NEW hi \in 0..MaxChanges, {t.at, old.at, c.at} \subseteq lo..hi
                 PROVE  /\ Rows(t) + Rows(old) <= Rows(c) + (hi - lo)
                        /\ Rows(c) <= Rows(t) + Rows(old) + (hi - lo)
      BY DEF Splits
    <2>1. Rows(f) <= Rows(old) + (hi - lo) /\ Rows(old) <= Rows(f) + (hi - lo)
      BY <1>3 DEF Fits
    <2>2. QED BY <1>1, <2>1
  <1>4. ASSUME Fits(c, old), Fits(old, c) PROVE Splits(t, f, old)
    <2> SUFFICES ASSUME NEW lo \in 0..MaxChanges, NEW hi \in 0..MaxChanges, {t.at, f.at, old.at} \subseteq lo..hi
                 PROVE  /\ Rows(t) + Rows(f) <= Rows(old) + (hi - lo)
                        /\ Rows(old) <= Rows(t) + Rows(f) + (hi - lo)
      BY DEF Splits
    <2>1. Rows(c) <= Rows(old) + (hi - lo) /\ Rows(old) <= Rows(c) + (hi - lo)
      BY <1>4 DEF Fits
    <2>2. QED BY <1>1, <2>1
  <1>5. QED BY <1>2, <1>3, <1>4

\* Only what is answered has results.
LEMMA PastIsAnswered ==
  ASSUME TypeOK, NEW s, NEW r \in Past(s)
  PROVE  s \in Answers(view)
  <1>1. CASE \E i \in DOMAIN req.got : req.path # None /\ StatementAt(i) = s
    <2>1. PICK i \in DOMAIN req.got : req.path # None /\ StatementAt(i) = s
      BY <1>1
    <2>2. /\ req.got \in Seq(Result) /\ Len(req.got) <= Len(StatementsOf(req.path))
          /\ req.path \in Paths(view)
      BY <2>1 DEF TypeOK
    <2>3. i \in DOMAIN StatementsOf(req.path)
      <3>1. Len(StatementsOf(req.path)) \in Nat
            /\ DOMAIN StatementsOf(req.path) = 1..Len(StatementsOf(req.path))
        BY <2>1, Statements
      <3>2. i \in 1..Len(req.got) /\ Len(req.got) \in Nat
        BY <2>1, <2>2
      <3>3. QED BY <2>2, <3>1, <3>2
    <2>4. CASE req.path = "indicadores"
      <3>1. StatementsOf(req.path) = Indicators
        BY <2>1, <2>4, Statements
      <3>2. s = Indicators[i] /\ i \in DOMAIN Indicators
        BY <2>1, <2>3, <3>1 DEF StatementAt, Indicators
      <3>3. s \in ToSet(Indicators)
        BY <3>2 DEF ToSet
      <3>4. view # "consulta"
        BY <2>2, <2>4 DEF Paths
      <3>5. QED BY <3>3, <3>4 DEF Answers
    <2>5. CASE req.path # "indicadores"
      <3>1. StatementsOf(req.path)[i] \in {"page", req.path}
        BY <2>1, <2>3, <2>5, Statements
      <3>2. s = req.path
        BY <2>1, <3>1 DEF StatementAt
      <3>3. QED BY <2>2, <2>5, <3>2 DEF Answers
    <2>6. QED BY <2>4, <2>5
  <1>2. QED BY <1>1 DEF Past

\* A change of the ETL keeps the invariant.
LEMMA EtlKeeps ==
  ASSUME IInv, NEW e \in Documents, NEW row \in Client \cup {None}, EtlWrites(e, row)
  PROVE  IInv'
  <1> DEFINE New(s) == [docs |-> Selected(s)', at |-> changes + 1]
  <1>1. /\ TypeOK /\ AskedOK /\ changes \in Nat /\ changes < MaxChanges /\ MaxChanges \in Nat
        /\ changes' = changes + 1 /\ view' = view /\ asked' = asked
        /\ table \in [Documents -> Client \cup {None}]
    BY ConstantsAssumption DEF IInv, TypeOK, EtlWrites
  <1>2. TypeOK'
    BY <1>1 DEF TypeOK, EtlWrites, Paths, Answers
  <1>3. AskedOK'
    BY <1>1 DEF AskedOK
  <1>4. CurrentFits /\ CurrentFits'
    BY <1>1, <1>2, <1>3, NowFits, NextFits
  <1>5. \A s : Now(s)' = New(s)
    BY <1>1 DEF Now
  <1>6. \A s : Known(s)' = {New(s)} \cup Past(s)
    BY EtlKnown
  <1>7. ASSUME NEW s
        PROVE  /\ New(s) \in Result /\ Now(s) \in Result
               /\ New(s).at = changes + 1 /\ Now(s).at = changes
               /\ Rows(New(s)) <= Rows(Now(s)) + 1 /\ Rows(Now(s)) <= Rows(New(s)) + 1
    <2>1. Now(s) \in Result
      BY <1>4 DEF CurrentFits, ResultOK
    <2>2. Selected(s)' \subseteq Documents
      BY DEF Selected
    <2>3. New(s) \in Result
      BY <1>1, <2>2 DEF Result
    <2>4. QED BY <1>1, <2>1, <2>3, EtlMovesOne DEF Rows, Now
  <1>8. ASSUME NEW s, NEW r \in Past(s)
        PROVE  r \in Result /\ r.at <= changes /\ r \in Known(s) /\ r.at \in Nat
    <2>1. s \in Answers(view) /\ r \in Known(s)
      BY <1>1, PastIsAnswered DEF Known
    <2>2. QED BY <2>1 DEF IInv, ResultsOK, ResultOK, Result
  <1>9. \A s : Now(s) \in Known(s)
    BY DEF Known
  <1>10. /\ \A p \in Within : Fits(New(p[1]), New(p[2]))
         /\ Splits(New("clientes_true"), New("clientes_false"), New("clientes"))
    BY <1>4, <1>5 DEF CurrentFits
  <1>11. ResultsOK'
    <2> SUFFICES ASSUME NEW s \in Answers(view), NEW r \in Known(s)'
                 PROVE  ResultOK(s, r)'
      BY <1>1 DEF ResultsOK, Answers, Paths
    <2>1. r \in {New(s)} \cup Past(s)
      BY <1>6
    <2>2. CASE r = New(s)
      BY <1>4, <1>5, <2>2 DEF CurrentFits
    <2>3. CASE r \in Past(s)
      <3>1. ResultOK(s, r)
        BY <2>3 DEF IInv, ResultsOK, Known
      <3>2. r.at # changes + 1
        BY <1>1, <1>8, <2>3
      <3>3. QED BY <1>1, <1>8, <2>3, <3>1, <3>2 DEF ResultOK, GetByDocumentos
    <2>4. QED BY <2>1, <2>2, <2>3
  <1>12. ResultsFit'
    <2> SUFFICES ASSUME NEW p \in Within, NEW r \in Known(p[1])', NEW q \in Known(p[2])'
                 PROVE  Fits(r, q)
      BY DEF ResultsFit
    <2>1. r \in {New(p[1])} \cup Past(p[1]) /\ q \in {New(p[2])} \cup Past(p[2])
      BY <1>6
    <2>2. CASE r = New(p[1]) /\ q = New(p[2])
      BY <1>10, <2>2
    <2>3. CASE r = New(p[1]) /\ q \in Past(p[2])
      <3>1. Fits(Now(p[1]), q)
        BY <1>8, <1>9, <2>3 DEF IInv, ResultsFit
      <3>2. QED BY <1>7, <1>8, <2>3, <3>1, LaterFits
    <2>4. CASE r \in Past(p[1]) /\ q = New(p[2])
      <3>1. Fits(r, Now(p[2]))
        BY <1>8, <1>9, <2>4 DEF IInv, ResultsFit
      <3>2. QED BY <1>7, <1>8, <2>4, <3>1, LaterFits
    <2>5. CASE r \in Past(p[1]) /\ q \in Past(p[2])
      BY <1>8, <2>5 DEF IInv, ResultsFit
    <2>6. QED BY <2>1, <2>2, <2>3, <2>4, <2>5
  <1>13. ResultsSplit'
    <2> DEFINE T == New("clientes_true")
               F == New("clientes_false")
               C == New("clientes")
    <2> SUFFICES ASSUME NEW t \in Known("clientes_true")', NEW f \in Known("clientes_false")',
                        NEW c \in Known("clientes")'
                 PROVE  Splits(t, f, c)
      BY DEF ResultsSplit
    <2>1. /\ t \in {T} \cup Past("clientes_true") /\ f \in {F} \cup Past("clientes_false")
          /\ c \in {C} \cup Past("clientes")
      BY <1>6
    <2>2. ASSUME NEW s \in {"clientes", "clientes_true", "clientes_false"}, NEW r \in Past(s)
          PROVE  Fits(New(s), r) /\ Fits(r, New(s))
      <3>1. <<s, s>> \in Within
        BY DEF Within
      <3>2. r \in Known(s)' /\ New(s) \in Known(s)'
        BY <1>6
      <3>3. QED BY <1>12, <3>1, <3>2 DEF ResultsFit
    <2>3. Rows(T) + Rows(F) = Rows(C)
      <3>1. /\ changes + 1 \in 0..MaxChanges
            /\ {T.at, F.at, C.at} \subseteq (changes + 1)..(changes + 1)
        BY <1>1
      <3>2. /\ Rows(T) + Rows(F) <= Rows(C) + ((changes + 1) - (changes + 1))
            /\ Rows(C) <= Rows(T) + Rows(F) + ((changes + 1) - (changes + 1))
        BY <1>10, <3>1 DEF Splits
      <3>3. Rows(T) \in Nat /\ Rows(F) \in Nat /\ Rows(C) \in Nat
        BY <1>7, RowsAreNumbers
      <3>4. QED BY <1>1, <3>2, <3>3
    <2>4. CASE t = T /\ f = F /\ c = C
      BY <1>10, <2>4
    <2>5. CASE t \in Past("clientes_true") /\ f = F /\ c = C
      BY <1>7, <1>8, <2>2, <2>3, <2>5, TwoOfOneTime
    <2>6. CASE t = T /\ f \in Past("clientes_false") /\ c = C
      BY <1>7, <1>8, <2>2, <2>3, <2>6, TwoOfOneTime
    <2>7. CASE t = T /\ f = F /\ c \in Past("clientes")
      BY <1>7, <1>8, <2>2, <2>3, <2>7, TwoOfOneTime
    <2>8. CASE t = T /\ f \in Past("clientes_false") /\ c \in Past("clientes")
      <3>1. Splits(Now("clientes_true"), f, c)
        BY <1>8, <1>9, <2>8 DEF IInv, ResultsSplit
      <3>2. QED BY <1>7, <1>8, <2>8, <3>1, LaterSplits
    <2>9. CASE t \in Past("clientes_true") /\ f = F /\ c \in Past("clientes")
      <3>1. Splits(t, Now("clientes_false"), c)
        BY <1>8, <1>9, <2>9 DEF IInv, ResultsSplit
      <3>2. QED BY <1>7, <1>8, <2>9, <3>1, LaterSplits
    <2>10. CASE t \in Past("clientes_true") /\ f \in Past("clientes_false") /\ c = C
      <3>1. Splits(t, f, Now("clientes"))
        BY <1>8, <1>9, <2>10 DEF IInv, ResultsSplit
      <3>2. QED BY <1>7, <1>8, <2>10, <3>1, LaterSplits
    <2>11. CASE /\ t \in Past("clientes_true") /\ f \in Past("clientes_false")
                /\ c \in Past("clientes")
      BY <1>8, <2>11 DEF IInv, ResultsSplit
    <2>12. QED BY <2>1, <2>4, <2>5, <2>6, <2>7, <2>8, <2>9, <2>10, <2>11
  <1>14. LookupsFit'
    <2> SUFFICES ASSUME view = "consulta", NEW s \in Lookups, NEW u \in Lookups,
                        NEW r \in Known(s)', NEW q \in Known(u)', r.at = q.at
                 PROVE  Found(s, r)' <=> Found(u, q)'
      BY <1>1 DEF LookupsFit
    <2>1. r \in {New(s)} \cup Past(s) /\ q \in {New(u)} \cup Past(u)
      BY <1>6
    <2>2. CASE r = New(s) /\ q = New(u)
      BY <1>1, <1>4, <1>5, <2>2 DEF CurrentFits
    <2>3. CASE r \in Past(s) /\ q \in Past(u)
      <3>1. Found(s, r) <=> Found(u, q)
        BY <1>8, <2>3 DEF IInv, LookupsFit
      <3>2. QED BY <1>1, <3>1 DEF Found
    <2>4. CASE r = New(s) /\ q \in Past(u)
      BY <1>1, <1>8, <2>4
    <2>5. CASE r \in Past(s) /\ q = New(u)
      BY <1>1, <1>8, <2>5
    <2>6. QED BY <2>1, <2>2, <2>3, <2>4, <2>5
  <1>15. QED BY <1>2, <1>3, <1>11, <1>12, <1>13, <1>14 DEF IInv

-----------------------------------------------------------------------------
\* Before anything is shown only what the statements return now is known.
LEMMA InitHolds == Init => IInv
  <1> SUFFICES ASSUME Init PROVE IInv
    OBVIOUS
  <1>1. TypeOK
    <2>1. asked \in Seq(Written)
      <3>1. CASE view = "consulta"
        <4>1. PICK v \in Written, w \in Written : asked = <<v, w>>
          BY <3>1 DEF Init
        <4>2. QED BY <4>1
      <3>2. CASE view # "consulta"
        BY <3>2 DEF Init
      <3>3. QED BY <3>1, <3>2
    <2>2. req \in [path : Paths(view) \cup {None}, got : Seq(Result)]
          /\ req.path = None
      BY DEF Init, NoRequest
    <2>3. table \in [Documents -> Client \cup {None}]
      BY ConstantsAssumption DEF Init
    <2>4. changes \in 0..MaxChanges
      BY ConstantsAssumption DEF Init
    <2>5. view \in {"indicadores", "consulta"} /\ shown \in [Answers(view) -> Result \cup {None}]
      BY DEF Init
    <2>6. QED BY <2>1, <2>2, <2>3, <2>4, <2>5 DEF TypeOK
  <1>2. AskedOK
    <2> SUFFICES ASSUME view = "consulta" PROVE Len(asked) = 2
      BY <1>1 DEF AskedOK, TypeOK
    <2>1. PICK v \in Written, w \in Written : asked = <<v, w>>
      BY DEF Init
    <2>2. QED BY <2>1
  <1>3. CurrentFits
    BY <1>1, <1>2, NowFits
  <1>4. \A s : Known(s) = {Now(s)}
    BY DEF Init, NoRequest, Known, Past
  <1>5. ResultsOK /\ ResultsFit /\ ResultsSplit
    BY <1>3, <1>4 DEF CurrentFits, ResultsOK, ResultsFit, ResultsSplit
  <1>6. LookupsFit
    BY <1>3, <1>4 DEF CurrentFits, LookupsFit
  <1>7. QED BY <1>1, <1>2, <1>5, <1>6 DEF IInv

\* Every step keeps the invariant.
LEMMA StepKeeps == IInv /\ [Next]_vars => IInv'
  <1> SUFFICES ASSUME IInv, [Next]_vars PROVE IInv'
    OBVIOUS
  <1>1. CASE \E path \in Paths(view) : Start(path)
    BY <1>1, StartKeeps
  <1>2. CASE Statement
    BY <1>2, StatementKeeps
  <1>3. CASE Answer
    BY <1>3, AnswerKeeps
  <1>4. CASE IndicatorsFail \/ RequestFails
    BY <1>4, GivenUpKeeps
  <1>5. CASE \E d \in Documents, row \in {None} \cup IF view = "consulta" THEN LookupClients ELSE Clients :
               EtlWrites(d, row)
    BY <1>5, EtlKeeps, ConstantsAssumption
  <1>6. CASE UNCHANGED vars
    <2>1. TypeOK'
      BY <1>6 DEF IInv, TypeOK, vars, Paths, Answers
    <2>2. \A s : Past(s)' \subseteq Known(s)
      BY <1>6 DEF vars, Past, Known, StatementAt, Answers, Paths
    <2>3. QED BY <1>6, <2>1, <2>2, RequestKept DEF vars
  <1>7. QED BY <1>1, <1>2, <1>3, <1>4, <1>5, <1>6 DEF Next

\* The invariant holds in every reachable state.
THEOREM Invariance == Spec => []IInv
  <1>1. QED BY InitHolds, StepKeeps, PTL DEF Spec

\* Results, requests and rows have their types whatever the ETL writes.
THEOREM TypeCorrectness == Spec => []TypeOK
  <1>1. IInv => TypeOK
    BY DEF IInv
  <1>2. QED BY <1>1, Invariance, PTL

\* What was shown of a statement is known.
LEMMA ShownIsKnown ==
  ASSUME IInv, NEW a \in Answers(view), shown[a] # None
  PROVE  shown[a] \in Known(a) /\ ResultOK(a, shown[a]) /\ shown[a] \in Result
  <1>1. shown[a] \in Known(a)
    BY DEF Known, Past
  <1>2. QED BY <1>1 DEF IInv, ResultsOK, ResultOK

\* While the ETL changes nothing the batch, the search by document and the single
\* read agree on whether a document exists that is written as the table has it
\* (clientes.py:157-245, 294-354).
THEOREM LookupsAlike == Spec => []LookupsAgree
  <1>1. IInv => LookupsAgree
    <2> SUFFICES ASSUME IInv, view = "consulta", NEW a \in Lookups, NEW b \in Lookups,
                        WasShown({a, b}), shown[a].at = shown[b].at
                 PROVE  asked[1].is \in shown[a].docs <=> asked[1].is \in shown[b].docs
      BY DEF LookupsAgree, Lookups
    <2>1. a \in Answers(view) /\ b \in Answers(view) /\ shown[a] # None /\ shown[b] # None
      BY DEF Lookups, Answers, Paths, WasShown
    <2>2. Found(a, shown[a]) <=> Found(b, shown[b])
      BY <2>1, ShownIsKnown DEF IInv, LookupsFit
    <2>3. QED BY <2>2 DEF Found
  <1>2. QED BY <1>1, Invariance, PTL

-----------------------------------------------------------------------------
\* Two things are two.
LEMMA PairSize ==
  ASSUME NEW x, NEW y, x # y
  PROVE  Cardinality({x, y}) = 2
  <1>1. IsFiniteSet({x}) /\ Cardinality({x}) = 1
    BY FS_Singleton
  <1>2. Cardinality({x} \cup {y}) = Cardinality({x}) + 1
    BY <1>1, FS_AddElement
  <1>3. {x, y} = {x} \cup {y}
    OBVIOUS
  <1>4. Cardinality({x, y}) = Cardinality({x} \cup {y})
    BY <1>3, Zenon
  <1>5. QED BY <1>1, <1>2, <1>4

\* What a batch of two documents finds and does not find makes up the batch,
\* unless it asks twice for a document that is found.
LEMMA BatchCounts ==
  ASSUME IInv, view = "consulta", NEW a \in {"lote", "lote_liberadas"}, shown[a] # None
  PROVE  /\ Size(a) + Cardinality(NotFound(a)) <= Len(asked)
         /\ Size(a) + Cardinality(NotFound(a)) < Len(asked) <=>
              asked[1].is = asked[2].is /\ \E d \in shown[a].docs : Is(asked[1], d)
  <1> DEFINE D == shown[a].docs
             N == NotFound(a)
  <1>1. /\ asked \in Seq(Written) /\ Len(asked) = 2 /\ DOMAIN asked = {1, 2}
        /\ asked[1] \in Written /\ asked[2] \in Written
    <2>1. asked \in Seq(Written) /\ Len(asked) = 2
      BY DEF IInv, AskedOK
    <2>2. QED BY <2>1
  <1>2. \A d \in D : d \in Documents /\ (Is(asked[1], d) \/ Is(asked[2], d))
    <2>1. a \in Answers(view)
      BY DEF Answers, Paths
    <2>2. shown[a] \in Result /\ \A d \in D : GetByDocumentos(d)
      BY <2>1, ShownIsKnown DEF ResultOK
    <2>3. QED BY <1>1, <2>2 DEF GetByDocumentos, Result
  <1>3. N = {i \in {1, 2} : \A d \in D : ~Is(asked[i], d)}
    BY <1>1 DEF NotFound
  <1>4. \A d, c, i : Is(asked[i], d) /\ Is(asked[i], c) => d = c
    BY DEF Is
  <1>5. \A d : Is(asked[1], d) /\ Is(asked[2], d) => asked[1].is = asked[2].is
    BY DEF Is
  <1>6. \A x : Cardinality({x}) = 1
    BY FS_Singleton
  <1> HIDE DEF D, N
  <1>7. CASE 1 \in N /\ 2 \in N
    <2>1. D = {} /\ N = {1, 2}
      BY <1>2, <1>3, <1>7
    <2>2. Cardinality(D) = 0 /\ Cardinality(N) = 2
      <3>1. Cardinality(D) = 0
        BY <2>1, FS_EmptySet
      <3>2. Cardinality({1, 2}) = 2
        <4>1. 1 # 2
          OBVIOUS
        <4>2. QED BY <4>1, PairSize, Zenon
      <3>3. QED BY <2>1, <3>1, <3>2
    <2>3. QED BY <1>1, <2>1, <2>2 DEF D, N, Size
  <1>8. CASE 1 \notin N /\ 2 \in N
    <2>1. PICK d \in D : Is(asked[1], d)
      BY <1>3, <1>8
    <2>2. ~Is(asked[2], d) /\ \A c \in D : Is(asked[1], c)
      BY <1>2, <1>3, <1>8
    <2>3. D = {d} /\ N = {2} /\ asked[1].is # asked[2].is
      <3>1. D = {d}
        BY <1>4, <2>1, <2>2
      <3>2. N = {2}
        BY <1>3, <1>8
      <3>3. QED BY <2>1, <2>2, <3>1, <3>2 DEF Is
    <2>4. Cardinality(D) = 1 /\ Cardinality(N) = 1
      BY <1>6, <2>3
    <2>5. QED BY <1>1, <2>3, <2>4 DEF D, N, Size
  <1>9. CASE 1 \in N /\ 2 \notin N
    <2>1. PICK d \in D : Is(asked[2], d)
      BY <1>3, <1>9
    <2>2. ~Is(asked[1], d) /\ \A c \in D : Is(asked[2], c) /\ ~Is(asked[1], c)
      BY <1>2, <1>3, <1>9
    <2>3. D = {d} /\ N = {1} /\ asked[1].is # asked[2].is
      <3>1. D = {d}
        BY <1>4, <2>1, <2>2
      <3>2. N = {1}
        BY <1>3, <1>9
      <3>3. QED BY <2>1, <2>2, <3>1, <3>2 DEF Is
    <2>4. Cardinality(D) = 1 /\ Cardinality(N) = 1
      BY <1>6, <2>3
    <2>5. QED BY <1>1, <2>3, <2>4 DEF D, N, Size
  <1>10. CASE 1 \notin N /\ 2 \notin N
    <2>1. PICK d \in D : Is(asked[1], d)
      BY <1>3, <1>10
    <2>2. PICK c \in D : Is(asked[2], c)
      BY <1>3, <1>10
    <2>3. N = {} /\ D = {d, c} /\ (asked[1].is = asked[2].is <=> d = c)
      <3>1. N = {}
        BY <1>3, <1>10
      <3>2. \A b \in D : b = d \/ b = c
        BY <1>2, <1>4, <2>1, <2>2
      <3>3. d = c => asked[1].is = asked[2].is
        BY <1>5, <2>1, <2>2
      <3>4. asked[1].is = asked[2].is => d = c
        BY <2>1, <2>2 DEF Is
      <3>5. QED BY <3>1, <3>2, <3>3, <3>4
    <2>4. Cardinality(N) = 0
      BY <2>3, FS_EmptySet
    <2>5. CASE d = c
      <3>1. D = {d}
        BY <2>3, <2>5
      <3>2. Cardinality(D) = 1
        BY <1>6, <3>1
      <3>3. QED BY <1>1, <2>1, <2>3, <2>4, <2>5, <3>2 DEF D, N, Size
    <2>6. CASE d # c
      <3>1. Cardinality(D) = 2
        BY <2>3, <2>6, PairSize
      <3>2. QED BY <1>1, <2>3, <2>4, <2>6, <3>1 DEF D, N, Size
    <2>7. QED BY <2>5, <2>6
  <1>11. QED BY <1>7, <1>8, <1>9, <1>10

\* The consumer of a batch can tell from its totals whether every document was
\* found (clientes.py:301-330).
THEOREM BatchTotals == Spec => []BatchTotalsAddUp
  <1>1. IInv => BatchTotalsAddUp
    BY BatchCounts DEF BatchTotalsAddUp, WasShown
  <1>2. QED BY <1>1, Invariance, PTL

-----------------------------------------------------------------------------
\* The times of two or three results lie between the least and the greatest.
LEMMA TimesBounded ==
  ASSUME NEW x \in 0..MaxChanges, NEW y \in 0..MaxChanges, NEW z \in 0..MaxChanges
  PROVE  LET S == {x, y, z}
         IN  /\ Min(S) \in 0..MaxChanges /\ Max(S) \in 0..MaxChanges
             /\ S \subseteq Min(S)..Max(S)
  <1> DEFINE S == {x, y, z}
  <1>1. MaxChanges \in Nat
    BY ConstantsAssumption
  <1>2. \E u \in S : \A v \in S : u <= v
    <2>1. CASE x <= y /\ x <= z
      BY <1>1, <2>1
    <2>2. CASE y <= x /\ y <= z
      BY <1>1, <2>2
    <2>3. CASE z <= x /\ z <= y
      BY <1>1, <2>3
    <2>4. QED BY <1>1, <2>1, <2>2, <2>3
  <1>3. \E u \in S : \A v \in S : u >= v
    <2>1. CASE x >= y /\ x >= z
      BY <1>1, <2>1
    <2>2. CASE y >= x /\ y >= z
      BY <1>1, <2>2
    <2>3. CASE z >= x /\ z >= y
      BY <1>1, <2>3
    <2>4. QED BY <1>1, <2>1, <2>2, <2>3
  <1>4. \A v \in S : v \in 0..MaxChanges
    OBVIOUS
  <1> HIDE DEF S
  <1>5. Min(S) \in S /\ \A v \in S : Min(S) <= v
    BY <1>2 DEF Min
  <1>6. Max(S) \in S /\ \A v \in S : Max(S) >= v
    BY <1>3 DEF Max
  <1>7. /\ Min(S) \in 0..MaxChanges /\ Max(S) \in 0..MaxChanges
        /\ S \subseteq Min(S)..Max(S)
    BY <1>1, <1>4, <1>5, <1>6
  <1>8. QED BY <1>7 DEF S

\* A count that was shown is off by no more than the changes between the two.
LEMMA ShownFits ==
  ASSUME IInv, NEW p \in Within, p[1] \in Answers(view), p[2] \in Answers(view)
  PROVE  AtMost(p[1], p[2])
  <1> DEFINE a == p[1]
             b == p[2]
  <1> SUFFICES ASSUME shown[a] # None, shown[b] # None
               PROVE  Size(a) <= Size(b) + ChangesBetween({a, b})
    BY DEF AtMost, WasShown
  <1>1. /\ shown[a] \in Known(a) /\ shown[b] \in Known(b)
        /\ shown[a].at \in 0..MaxChanges /\ shown[b].at \in 0..MaxChanges
    BY ShownIsKnown DEF Result
  <1>2. Fits(shown[a], shown[b])
    BY <1>1 DEF IInv, ResultsFit
  <1> DEFINE S == {shown[a].at, shown[b].at}
  <1>3. S = {shown[a].at, shown[b].at, shown[b].at}
    OBVIOUS
  <1>4. {shown[c].at : c \in {a, b}} = S
    OBVIOUS
  <1>5. Min(S) \in 0..MaxChanges /\ Max(S) \in 0..MaxChanges /\ S \subseteq Min(S)..Max(S)
    BY <1>1, <1>3, TimesBounded
  <1>6. ChangesBetween({a, b}) = Max(S) - Min(S)
    BY <1>4 DEF ChangesBetween
  <1>7. QED BY <1>2, <1>5, <1>6 DEF Fits, Rows, Size

\* The two answers to nunca_qualificou share out the clients but for the changes
\* between the three.
LEMMA ShownSplit ==
  ASSUME IInv, view = "indicadores",
         WasShown({"clientes", "clientes_true", "clientes_false"})
  PROVE  (Size("clientes_true") + Size("clientes_false")) - Size("clientes")
           \in (0 - ChangesBetween({"clientes", "clientes_true", "clientes_false"}))
                 ..ChangesBetween({"clientes", "clientes_true", "clientes_false"})
  <1> DEFINE t == shown["clientes_true"]
             f == shown["clientes_false"]
             c == shown["clientes"]
             parts == {"clientes", "clientes_true", "clientes_false"}
  <1>1. /\ t \in Known("clientes_true") /\ t \in Result
        /\ f \in Known("clientes_false") /\ f \in Result
        /\ c \in Known("clientes") /\ c \in Result
    BY ShownIsKnown DEF WasShown, Answers, Paths
  <1>2. Splits(t, f, c)
    BY <1>1 DEF IInv, ResultsSplit
  <1> DEFINE S == {c.at, t.at, f.at}
  <1>3. {shown[a].at : a \in parts} = S
    OBVIOUS
  <1>4. Min(S) \in 0..MaxChanges /\ Max(S) \in 0..MaxChanges /\ S \subseteq Min(S)..Max(S)
    BY <1>1, TimesBounded DEF Result
  <1>5. ChangesBetween(parts) = Max(S) - Min(S)
    BY <1>3 DEF ChangesBetween
  <1>6. /\ Rows(t) + Rows(f) <= Rows(c) + (Max(S) - Min(S))
        /\ Rows(c) <= Rows(t) + Rows(f) + (Max(S) - Min(S))
    BY <1>2, <1>4 DEF Splits
  <1>7. Rows(t) \in Nat /\ Rows(f) \in Nat /\ Rows(c) \in Nat
    BY <1>1, RowsAreNumbers
  <1>8. Max(S) - Min(S) \in Int
    BY <1>4, ConstantsAssumption
  <1>9. (Rows(t) + Rows(f)) - Rows(c) \in (0 - ChangesBetween(parts))..ChangesBetween(parts)
    BY <1>5, <1>6, <1>7, <1>8
  <1>10. QED BY <1>9 DEF Rows, Size

\* The numbers of a dashboard fit together but for the rows the ETL has changed
\* between the requests (clientes.py:61-66, visao_cliente_repository.py:39-44,
\* 324-392).
THEOREM DashboardSums == Spec => []DashboardAddsUp
  <1>1. IInv => DashboardAddsUp
    <2> SUFFICES ASSUME IInv, view = "indicadores" PROVE DashboardAddsUp
      BY DEF DashboardAddsUp
    <2>1. /\ "empresas" \in Answers(view) /\ "clientes_false" \in Answers(view)
          /\ ToSet(Indicators) \subseteq Answers(view)
      BY DEF Answers, Paths
    <2>2. {"contas_abertas", "instalacao_c6pay", "qualificacao_c6pay", "contas_qualificadas"}
            \subseteq ToSet(Indicators)
      <3>1. /\ DOMAIN Indicators = 1..4
            /\ Indicators[1] = "contas_abertas" /\ Indicators[2] = "instalacao_c6pay"
            /\ Indicators[3] = "qualificacao_c6pay" /\ Indicators[4] = "contas_qualificadas"
        BY DEF Indicators
      <3>2. 1 \in 1..4 /\ 2 \in 1..4 /\ 3 \in 1..4 /\ 4 \in 1..4
        OBVIOUS
      <3>3. QED BY <3>1, <3>2 DEF ToSet
    <2>3. ASSUME NEW a, NEW b, <<a, b>> \in Within, a \in Answers(view), b \in Answers(view)
          PROVE  AtMost(a, b)
      BY <2>3, ShownFits
    <2>4. /\ AtMost("qualificacao_c6pay", "instalacao_c6pay")
          /\ AtMost("instalacao_c6pay", "empresas") /\ AtMost("contas_abertas", "empresas")
          /\ AtMost("contas_qualificadas", "clientes_false")
          /\ AtMost("clientes_false", "contas_qualificadas")
      BY <2>1, <2>2, <2>3 DEF Within
    <2>5. QED BY <2>4, ShownSplit DEF DashboardAddsUp
  <1>2. QED BY <1>1, Invariance, PTL

-----------------------------------------------------------------------------
\* A text of a date without a time is that of its day.
LEMMA TextOfDay ==
  ASSUME NEW text \in Nat, text % 2 = 0
  PROVE  Day(text) \in Nat /\ text = 2 * Day(text)
  BY DEF Day

\* A day from the first of a month to the last of another is in one of the months.
LEMMA DaysAndMonths ==
  ASSUME NEW day \in Nat, NEW first \in Nat, NEW last \in Nat
  PROVE  /\ Month(day) \in Nat
         /\ FirstDay(first) <= day <=> first <= Month(day)
         /\ day <= LastDay(last) <=> Month(day) <= last
  BY DEF Month, FirstDay, LastDay

\* The first three months of a year are those of its first quarter.
LEMMA FirstQuarter ==
  ASSUME NEW month \in Nat, NEW ref \in Nat
  PROVE  LET january == ref - (ref % 12)
         IN  january <= month /\ month <= january + 2 <=>
               month \div 12 = ref \div 12 /\ month % 12 <= 2
  OBVIOUS

\* The months of as_of and the windows that begin with them.
LEMMA Windows ==
  /\ Month(AsOf) \in Nat /\ Month(AsOf) - 5 \in Nat /\ AsOf \in Nat
  /\ Month(AsOf) - (Month(AsOf) % 12) \in Nat
  <1>1. AsOf \in Nat /\ Month(AsOf) >= 5
    BY ConstantsAssumption
  <1>2. Month(AsOf) \in Nat
    BY <1>1, DaysAndMonths
  <1>3. \A n \in Nat : n - (n % 12) \in Nat
    OBVIOUS
  <1>4. QED BY <1>1, <1>2, <1>3

\* A date without a time is in the window of the accounts opened if it is of the
\* first quarter of the year of as_of.
LEMMA ContasCounted ==
  ASSUME NEW text \in Nat, text % 2 = 0
  PROVE  text \in ContasWindow <=>
           /\ Month(Day(text)) \div 12 = Month(AsOf) \div 12
           /\ Month(Day(text)) % 12 <= 2
  <1> DEFINE january == Month(AsOf) - (Month(AsOf) % 12)
             day == Day(text)
  <1>1. day \in Nat /\ text = 2 * day
    BY TextOfDay
  <1>2. january \in Nat /\ january + 2 \in Nat /\ Month(AsOf) \in Nat
    BY Windows
  <1>3. /\ Month(day) \in Nat
        /\ FirstDay(january) <= day <=> january <= Month(day)
        /\ day <= LastDay(january + 2) <=> Month(day) <= january + 2
    <2> HIDE DEF january, day
    <2>1. QED BY <1>1, <1>2, DaysAndMonths
  <1>4. january <= Month(day) /\ Month(day) <= january + 2 <=>
          Month(day) \div 12 = Month(AsOf) \div 12 /\ Month(day) % 12 <= 2
    BY <1>2, <1>3, FirstQuarter
  <1>5. FirstDay(january) \in Nat /\ LastDay(january + 2) \in Nat
    <2> HIDE DEF january
    <2>1. QED BY <1>2 DEF FirstDay, LastDay
  <1>6. ContasWindow = 2 * FirstDay(january) .. 2 * LastDay(january + 2)
    <2>1. ContasWindow = DateText(FirstDay(january), FALSE)..DateText(LastDay(january + 2), FALSE)
      BY DEF ContasWindow
    <2> HIDE DEF january
    <2>2. \A n \in Nat : DateText(n, FALSE) = 2 * n
      BY DEF DateText
    <2>3. QED BY <1>5, <2>1, <2>2
  <1> HIDE DEF january, day
  <1>7. text \in ContasWindow <=> FirstDay(january) <= day /\ day <= LastDay(january + 2)
    BY <1>1, <1>5, <1>6
  <1>8. QED BY <1>3, <1>4, <1>7 DEF day

\* And in that of the machines installed if it is of the month of as_of or one of
\* the five before, up to the day.
LEMMA InstallCounted ==
  ASSUME NEW text \in Nat, text % 2 = 0
  PROVE  text \in InstallWindow <=>
           Month(Day(text)) + 5 >= Month(AsOf) /\ Day(text) <= AsOf
  <1> DEFINE first == Month(AsOf) - 5
             day == Day(text)
  <1>1. day \in Nat /\ text = 2 * day
    BY TextOfDay
  <1>2. first \in Nat /\ Month(AsOf) \in Nat /\ AsOf \in Nat
    BY Windows
  <1>3. Month(day) \in Nat /\ (FirstDay(first) <= day <=> first <= Month(day))
    <2> HIDE DEF first, day
    <2>1. QED BY <1>1, <1>2, DaysAndMonths
  <1>4. FirstDay(first) \in Nat
    <2> HIDE DEF first
    <2>1. QED BY <1>2 DEF FirstDay
  <1>5. InstallWindow = 2 * FirstDay(first) .. 2 * AsOf
    <2>1. InstallWindow = DateText(FirstDay(first), FALSE)..DateText(AsOf, FALSE)
      BY DEF InstallWindow
    <2> HIDE DEF first
    <2>2. \A n \in Nat : DateText(n, FALSE) = 2 * n
      BY DEF DateText
    <2>3. QED BY <1>2, <1>4, <2>1, <2>2
  <1>6. text \in InstallWindow <=> first <= Month(day) /\ day <= AsOf
    <2> HIDE DEF first, day
    <2>1. QED BY <1>1, <1>2, <1>3, <1>4, <1>5
  <1>7. first <= Month(day) <=> Month(day) + 5 >= Month(AsOf)
    BY <1>2, <1>3
  <1>8. QED BY <1>6, <1>7

\* A missing date is in no window.
LEMMA MissingNotCounted ==
  ASSUME NEW text \in Missing
  PROVE  text \notin ContasWindow /\ text \notin InstallWindow /\ text \notin Nat
  <1>1. text \notin Nat
    BY ConstantsAssumption
  <1>2. \A n \in Nat, m \in Nat : text \notin n..m
    BY <1>1
  <1>3. \A n \in Nat : DateText(n, FALSE) \in Nat /\ FirstDay(n) \in Nat /\ LastDay(n + 2) \in Nat
    BY DEF DateText, FirstDay, LastDay
  <1>4. text \notin InstallWindow
    BY <1>2, <1>3, Windows DEF InstallWindow
  <1>5. text \notin ContasWindow
    <2> DEFINE january == Month(AsOf) - (Month(AsOf) % 12)
    <2>1. january \in Nat
      BY Windows
    <2>2. ContasWindow = DateText(FirstDay(january), FALSE)..DateText(LastDay(january + 2), FALSE)
      BY DEF ContasWindow
    <2> HIDE DEF january
    <2>3. QED BY <1>2, <1>3, <2>1, <2>2
  <1>6. QED BY <1>1, <1>4, <1>5

\* A row without "nan" and without times is selected by the statement of an
\* indicator if it is what its docstring says.
LEMMA SelectedIsMeant ==
  ASSUME NEW row \in Client, Regular(row)
  PROVE  /\ ContaAberta(row) <=> Meant("contas_abertas", row)
         /\ InstalacaoC6pay(row) <=> Meant("instalacao_c6pay", row)
         /\ QualificacaoC6pay(row) <=> Meant("qualificacao_c6pay", row)
         /\ ContaQualificada(row) <=> Meant("contas_qualificadas", row)
  <1>1. /\ row.dt_conta_criada \in Nat \cup Missing /\ row.dt_install_maq \in Nat \cup Missing
        /\ row.dt_conta_criada \notin Missing => row.dt_conta_criada % 2 = 0
        /\ row.dt_install_maq \notin Missing => row.dt_install_maq % 2 = 0
    BY DEF Client, Regular
  <1>2. row.dt_conta_criada \in ContasWindow <=>
          /\ row.dt_conta_criada \notin Missing
          /\ Month(Day(row.dt_conta_criada)) \div 12 = Month(AsOf) \div 12
          /\ Month(Day(row.dt_conta_criada)) % 12 <= 2
    BY <1>1, ContasCounted, MissingNotCounted
  <1>3. row.dt_install_maq \in InstallWindow <=>
          /\ row.dt_install_maq \notin Missing
          /\ Month(Day(row.dt_install_maq)) + 5 >= Month(AsOf)
          /\ Day(row.dt_install_maq) <= AsOf
    BY <1>1, InstallCounted, MissingNotCounted
  <1>4. row.dt_cancelamento_maq \in {Null, Blank} <=> row.dt_cancelamento_maq \in Missing
    BY DEF Regular, Missing
  <1>5. TpvReached(row) <=> row.tpv_m0 \notin Missing /\ row.tpv_m0 >= 5000
    BY DEF Regular, TpvReached
  <1>6. ContaAberta(row) <=> Meant("contas_abertas", row)
    BY <1>2 DEF ContaAberta, Meant
  <1>7. InstalacaoC6pay(row) <=> Meant("instalacao_c6pay", row)
    BY <1>3 DEF InstalacaoC6pay, Meant
  <1>8. QualificacaoC6pay(row) <=> Meant("qualificacao_c6pay", row)
    BY <1>3, <1>4, <1>5 DEF QualificacaoC6pay, InstalacaoC6pay, Meant
  <1>9. ContaQualificada(row) <=> Meant("contas_qualificadas", row)
    BY DEF ContaQualificada, Meant
  <1>10. QED BY <1>6, <1>7, <1>8, <1>9

\* Over rows without "nan" and without times the indicators count what their
\* docstrings say, for every reference date (visao_cliente_repository.py:324-392).
THEOREM IndicatorMeaning == Spec => []IndicatorsCountWhatTheySay
  <1>1. IInv => IndicatorsCountWhatTheySay
    <2> SUFFICES ASSUME IInv, view = "indicadores", NEW a \in ToSet(Indicators), WasShown({a}),
                        shown[a].at = changes, NEW d \in Documents, table[d] # None,
                        Regular(table[d])
                 PROVE  d \in shown[a].docs <=> Meant(a, table[d])
      BY DEF IndicatorsCountWhatTheySay
    <2>1. a \in Answers(view) /\ shown[a] # None
      BY DEF Answers, WasShown
    <2>2. shown[a].docs = Selected(a)
      BY <2>1, ShownIsKnown DEF ResultOK
    <2>3. table[d] \in Client
      BY RowIsClient DEF IInv
    <2>4. a \in {"contas_abertas", "instalacao_c6pay", "qualificacao_c6pay", "contas_qualificadas"}
      BY DEF ToSet, Indicators
    <2>5. d \in Selected(a) <=> Meant(a, table[d])
      <3>1. CASE a = "contas_abertas"
        BY <2>3, <3>1, SelectedIsMeant DEF Selected
      <3>2. CASE a = "instalacao_c6pay"
        BY <2>3, <3>2, SelectedIsMeant DEF Selected
      <3>3. CASE a = "qualificacao_c6pay"
        BY <2>3, <3>3, SelectedIsMeant DEF Selected
      <3>4. CASE a = "contas_qualificadas"
        BY <2>3, <3>4, SelectedIsMeant DEF Selected
      <3>5. QED BY <2>4, <3>1, <3>2, <3>3, <3>4
    <2>6. QED BY <2>2, <2>5
  <1>2. QED BY <1>1, Invariance, PTL
=============================================================================
