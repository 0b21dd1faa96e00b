--------------------------- MODULE MCModuleCycles ---------------------------
(* Four files.  Barrels: re-exports between three of them and a leaf; files: *)
(* imports, platform variants and files exempt from the report; lazy: imports *)
(* at run time; loops: all graphs of imports, used at the top level on all   *)
(* of them or one.                                                           *)
EXTENDS ModuleCycles

CONSTANTS x, y

MCModule == 1 .. 4
MCName == {x, y}

Local(m, n) == [in |-> m, kind |-> "local", name |-> n, orig |-> None, to |-> None]
Star(m, t) == [in |-> m, kind |-> "star", name |-> None, orig |-> None, to |-> t]
Named(m, n, o, t) == [in |-> m, kind |-> "named", name |-> n, orig |-> o, to |-> t]
As(m, n, t) == [in |-> m, kind |-> "as", name |-> n, orig |-> None, to |-> t]
Imports(f, t, h, ns) == [from |-> f, to |-> t, how |-> h, names |-> ns, atInit |-> TRUE]

Pairs == {<<1, 2>>, <<2, 3>>, <<2, 4>>, <<3, 2>>, <<3, 3>>, <<3, 4>>}
ReExports == {Star(p[1], p[2]) : p \in Pairs} \cup {As(p[1], y, p[2]) : p \in Pairs}
             \cup {Named(p[1], x, o, p[2]) : p \in Pairs, o \in MCName}

Barrels ==
  {[entry |-> {1}, imports |-> {i}, exports |-> r \cup l \cup {Local(4, x), Local(4, y)},
    siblings |-> <<>>, ignored |-> {}, exempt |-> {}] :
     i \in {Imports(1, 2, "names", {x}), Imports(1, 2, "whole", {})},
     r \in {{a, b, c} : a, b, c \in ReExports}, l \in {{Local(3, y)}}}

Arcs == {p \in MCModule \X MCModule : p[1] # p[2]}

Sided ==
  {[entry |-> {1}, imports |-> {Imports(p[1], p[2], "bare", {}) : p \in i},
    exports |-> r, siblings |-> s, ignored |-> {}, exempt |-> d] :
     i \in {{a, b, c} : a, b, c \in Arcs}, r \in {{}, {Star(3, 4)}},
     s \in {<<{3, 4}>>, <<{2, 3}, {3, 4}>>, <<{3, 4}, {2, 3}>>}, d \in {{}, {4}}}

Lazy ==
  {[entry |-> {1}, imports |-> i, exports |-> r \cup {Local(3, x), Local(4, x), Local(4, y)},
    siblings |-> <<>>, ignored |-> {}, exempt |-> {}] :
     i \in UNION {{{Imports(1, 2, h, {})}, {Imports(1, 2, "bare", {}), Imports(2, 3, h, {})}} :
                     h \in {"dynamic", "glob"}},
     r \in SUBSET {Star(1, 3), As(1, y, 3), As(2, x, 3), Star(2, 4), Named(2, y, x, 4)}}

Loops ==
  {[entry |-> {1},
    imports |-> {[CASE p = <<3, 1>> -> Imports(3, 1, "type", {x})
                    [] p = <<4, 2>> -> Imports(4, 2, "bare", {})
                    [] OTHER -> Imports(p[1], p[2], "names", {x})
                    EXCEPT !.atInit = p \in a] : p \in i},
    exports |-> {}, siblings |-> <<>>, ignored |-> {}, exempt |-> {}] :
     i \in SUBSET ((Arcs \ {<<1, 3>>, <<1, 4>>, <<4, 1>>}) \cup {<<3, 3>>}),
     a \in {Arcs \cup {<<3, 3>>}, {<<2, 3>>}}}

MCFamily == {Barrels, Sided, Lazy, Loops}
=============================================================================
