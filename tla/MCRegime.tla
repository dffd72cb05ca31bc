------------------------------ MODULE MCRegime ------------------------------
(* Instances of Regime for TLC.                                            *)
EXTENDS Regime

CONSTANT t

Plain == [section |-> FALSE, titled |-> FALSE, number |-> 0, term |-> NoTerm,
          mentions |-> {}, refs |-> <<>>, proviso |-> FALSE, notwithstanding |-> FALSE]
Section(n)       == [Plain EXCEPT !.section = TRUE, !.number = n]
Definitional(n)  == [Section(n) EXCEPT !.titled = TRUE]
Defining         == [Plain EXCEPT !.term = t]
Mentioning(n, r) == [Plain EXCEPT !.number = n, !.mentions = {t}, !.refs = r]
Provided         == [Plain EXCEPT !.proviso = TRUE]
Override(r)      == [Plain EXCEPT !.notwithstanding = TRUE, !.refs = r]

MCTerms == {t}

(* A definition, its use and an exception; a proviso of a reference; two   *)
(* sections of one number; a proviso that became a plain text; nothing.    *)
MCDocuments == {
  <<Definitional(1), Defining, Section(2), Mentioning(1, <<<<1, 0>>>>), Override(<<<<0, 1>>>>)>>,
  <<Section(1), Mentioning(1, <<>>), Provided, Section(2), Override(<<<<1, 1>>>>)>>,
  <<Section(1), Plain, Section(1), Override(<<>>)>>,
  <<Section(1), Mentioning(1, <<<<2, 0>>>>), Plain, Section(2), [Provided EXCEPT !.refs = <<<<0, 1>>>>]>>,
  <<>> }

MCOneDocument == {<<Section(1), Section(2), Override(<<<<1, 0>>>>)>>}
=============================================================================
