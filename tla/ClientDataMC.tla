----------------------------- MODULE ClientDataMC -----------------------------
EXTENDS ClientData, TLC

\* The tenth day of a December.
MCAsOf == FirstDay(23) + 9

\* Qualified in every respect, at the edges of the windows.
Base == [tipo_pessoa |-> "PJ", status_cc |-> "LIBERADA",
         dt_conta_criada |-> DateText(LastDay(14), FALSE),
         dt_install_maq |-> DateText(FirstDay(18), FALSE),
         dt_cancelamento_maq |-> Null, tpv_m0 |-> 5000, fl_qualificado_comiss |-> "1"]

\* One row for each way of missing a condition or of slipping through it.
MCClients == {
  Base,
  [Base EXCEPT !.tpv_m0 = 4999, !.dt_conta_criada = DateText(FirstDay(12), FALSE),
               !.fl_qualificado_comiss = "0"],
  [Base EXCEPT !.tpv_m0 = NaN, !.dt_conta_criada = DateText(FirstDay(15), FALSE),
               !.fl_qualificado_comiss = Null],
  [Base EXCEPT !.dt_install_maq = DateText(MCAsOf, TRUE), !.dt_conta_criada = NaN,
               !.fl_qualificado_comiss = "1.0"],
  [Base EXCEPT !.tpv_m0 = Blank, !.dt_conta_criada = DateText(LastDay(14), TRUE)],
  [Base EXCEPT !.status_cc = "liberada"],
  [Base EXCEPT !.tipo_pessoa = "PF", !.status_cc = "ENCERRADA", !.tpv_m0 = Blank,
               !.fl_qualificado_comiss = NaN],
  [Base EXCEPT !.dt_cancelamento_maq = NaN, !.dt_conta_criada = DateText(LastDay(11), FALSE)],
  [Base EXCEPT !.dt_install_maq = DateText(MCAsOf, FALSE), !.dt_cancelamento_maq = Blank,
               !.dt_conta_criada = Null],
  [Base EXCEPT !.dt_install_maq = Null, !.tpv_m0 = Null, !.status_cc = Null]}

MCLookupClients == {Base, [Base EXCEPT !.status_cc = "ENCERRADA"]}

\* Documents are interchangeable.
Symmetry == Permutations(Documents)
=============================================================================
