--------------------------- MODULE PackageLoading ---------------------------
(***************************************************************************)
(* _load_checkout_package of the repository's __init__.py.  A host loads   *)
(* checkouts of the package under names of its own; each makes itself the  *)
(* one comfyui_sigmax of the process and imports its parts by absolute     *)
(* names.  The process keeps the parts that were imported in a table,      *)
(* sys.modules, which outlives a load that fails.                          *)
(***************************************************************************)
EXTENDS Naturals, Sequences

CONSTANTS
    Checkouts,      \* directories the host finds the package in
    Parts,          \* the package's modules, in the order of their imports
    Nobody,         \* not in sys.modules
    MaxLoads        \* bound: loads of a behavior

(* Nobody is no checkout and no load that is under way.                     *)
ASSUME LoadingAssumption ==
    /\ Nobody \notin Checkouts \cup [checkout : Checkouts, done : Nat]
    /\ Parts \in Seq(STRING)

VARIABLES
    package,        \* the checkout sys.modules has as comfyui_sigmax
    parts,          \* for each part, the checkout it was imported from
    loading,        \* the checkout being loaded and how many parts it has, or Nobody
    served,         \* <<checkout, parts>> of the mappings the host was given
    loads

loader == <<package, parts, loading, served, loads>>

LoadingInit ==
    /\ package = Nobody
    /\ parts = [i \in DOMAIN Parts |-> Nobody]
    /\ loading = Nobody
    /\ served = {}
    /\ loads = 0

(***************************************************************************)
(* The package is there: it is this checkout's and its mappings are given  *)
(* to the host again, or it is another's and the load is refused.          *)
(***************************************************************************)
Existing(checkout) ==
    /\ package # Nobody
    /\ served' = IF package = checkout THEN served \cup {<<checkout, parts>>} ELSE served
    /\ UNCHANGED <<package, parts, loading>>

(* The alias is set before the package is executed. *)
Begin(checkout) ==
    /\ package = Nobody
    /\ package' = checkout
    /\ loading' = [checkout |-> checkout, done |-> 0]
    /\ UNCHANGED <<parts, served>>

Load(checkout) ==
    /\ loading = Nobody
    /\ loads < MaxLoads     \* bound
    /\ loads' = loads + 1
    /\ Existing(checkout) \/ Begin(checkout)

(***************************************************************************)
(* exec_module imports the next part: from the table if it is there, else  *)
(* from the checkout.                                                      *)
(***************************************************************************)
Import ==
    /\ loading # Nobody
    /\ loading.done < Len(Parts)
    /\ LET next == loading.done + 1
       IN  parts' = IF parts[next] = Nobody
                      THEN [parts EXCEPT ![next] = loading.checkout] ELSE parts
    /\ loading' = [loading EXCEPT !.done = @ + 1]
    /\ UNCHANGED <<package, served, loads>>

(***************************************************************************)
(* A part that is not in the table raises: the alias is taken back, the    *)
(* parts imported before it stay in the table.                             *)
(***************************************************************************)
ImportFailsKept ==  \* mutant: sys.modules.pop is left out
    /\ loading # Nobody
    /\ loading.done < Len(Parts)
    /\ parts[loading.done + 1] = Nobody
    /\ loading' = Nobody
    /\ UNCHANGED <<package, parts, served, loads>>

ImportFails ==
    /\ loading # Nobody
    /\ loading.done < Len(Parts)
    /\ parts[loading.done + 1] = Nobody
    /\ loading' = Nobody
    /\ package' = Nobody
    /\ UNCHANGED <<parts, served, loads>>

Loaded ==
    /\ loading # Nobody
    /\ loading.done = Len(Parts)
    /\ served' = served \cup {<<loading.checkout, parts>>}
    /\ loading' = Nobody
    /\ UNCHANGED <<package, parts, loads>>

LoadingNext ==
    \/ \E checkout \in Checkouts : Load(checkout)
    \/ Import
    \/ ImportFails
    \/ Loaded

LoadingSpec == LoadingInit /\ [][LoadingNext]_loader

-----------------------------------------------------------------------------
(***************************************************************************)
(* The package a later load finds is one that was loaded to its end: a     *)
(* load that failed half way is not taken for it ("except Exception:       *)
(* sys.modules.pop"), whichever checkout comes next.                       *)
(***************************************************************************)
ExistingIsComplete ==
    /\ package # Nobody /\ loading = Nobody =>
         \A i \in DOMAIN Parts : parts[i] # Nobody
    /\ \A s \in served : \A i \in DOMAIN Parts : s[2][i] # Nobody

(***************************************************************************)
(* The nodes a checkout gives to the host are its own ("Load this          *)
(* checkout's nested package", "refusing to overwrite a different          *)
(* comfyui_sigmax package").                                               *)
(***************************************************************************)
ServesItsOwn == \A s \in served : \A i \in DOMAIN Parts : s[2][i] = s[1]
=============================================================================
