------------------------------- MODULE MCProcess -------------------------------
(***************************************************************************)
(* A built-in check that is a default, one that is not, a custom one, a     *)
(* misspelled name, one with a comma and one with a quote; at most one bad  *)
(* setting.                                                                 *)
(***************************************************************************)
EXTENDS Process

CONSTANTS default, builtIn, custom, misspelled, comma, quote, escaped

(* The quote is read with its backslash, as the name of no check. *)
MCQuoted == [n \in Name |-> IF n = quote THEN escaped ELSE n]

With(inc, exc, cust) ==
    [include |-> inc, exclude |-> exc, noDefaults |-> TRUE, allBuiltIn |-> FALSE,
     custom |-> cust, loads |-> TRUE]

(* Without a file: the defaults by name. *)
MCDefaultChecks == With(<<default>>, <<>>, {})

MCLists ==
    {MCDefaultChecks,
     With(<<misspelled, builtIn, misspelled, custom, default>>, <<builtIn>>, {custom}),
     With(<<custom, builtIn>>, <<misspelled, default>>, {}),
     [With(<<misspelled>>, <<default, misspelled, builtIn>>, {}) EXCEPT !.allBuiltIn = TRUE],
     [With(<<builtIn, misspelled, comma>>, <<>>, {}) EXCEPT !.noDefaults = FALSE],
     With(<<misspelled, quote, builtIn>>, <<misspelled>>, {}),
     [With(<<builtIn>>, <<>>, {custom}) EXCEPT !.loads = FALSE]}

MCBadSettings == {S \in SUBSET (Settings \ {"config_file"}) : Cardinality(S) <= 1}
===============================================================================
