---------------------------- MODULE MCDynRelocs ----------------------------
(***************************************************************************)
(* TLC instances of DynRelocs: two symbols, f and g, in every kind of      *)
(* link.                                                                   *)
(***************************************************************************)
EXTENDS DynRelocs, TLC

CONSTANTS f, g

K(def, vis, func) == [def |-> def, vis |-> vis, func |-> func]

\* The option records: a shared library, and executables without and with PLTs
\* and copy relocations.
Options ==
  {[shared |-> TRUE, executable |-> FALSE, use_plts |-> FALSE, nocopyreloc |-> FALSE],
   [shared |-> TRUE, executable |-> TRUE, use_plts |-> FALSE, nocopyreloc |-> FALSE],
   [shared |-> FALSE, executable |-> TRUE, use_plts |-> FALSE, nocopyreloc |-> FALSE],
   [shared |-> FALSE, executable |-> TRUE, use_plts |-> TRUE, nocopyreloc |-> FALSE],
   [shared |-> FALSE, executable |-> TRUE, use_plts |-> TRUE, nocopyreloc |-> TRUE]}

MakeLink(o, kf, kg, indirect, weakdef) ==
  [shared |-> o.shared, executable |-> o.executable, use_plts |-> o.use_plts,
   nocopyreloc |-> o.nocopyreloc, kind |-> (f :> kf @@ g :> kg),
   indirect |-> (f :> f @@ g :> indirect), weakdef |-> (f :> f @@ g :> weakdef)]

\* Every function kind next to a function of a library.
Functions ==
  {MakeLink(o, kf, K("dynamic", "default", TRUE), g, g) :
     o \in Options,
     kf \in {K("regular", "default", TRUE), K("regular", "protected", TRUE),
             K("regular", "hidden", TRUE), K("weak", "default", TRUE),
             K("dynamic", "default", TRUE), K("undefweak", "default", TRUE),
             K("undefweak", "hidden", TRUE)}}

\* A function that is not defined at all, as a shared library may leave it.
Undefined ==
  {MakeLink(o, K("undef", "default", TRUE), K("regular", "protected", FALSE), g, g) :
     o \in {p \in Options : p.shared /\ ~p.executable}}

\* g is found to be another name of the function f.
Indirect ==
  {MakeLink(o, kf, K("undef", "default", TRUE), f, g) :
     o \in Options,
     kf \in {K("dynamic", "default", TRUE), K("regular", "default", TRUE)}}

\* g is a weak alias of f in the library.
WeakAliases ==
  {MakeLink(o, K("dynamic", "default", FALSE), K("dynamic", "default", FALSE), g, f) :
     o \in Options}

AllLinks == Functions \cup Undefined \cup Indirect \cup WeakAliases
=============================================================================
