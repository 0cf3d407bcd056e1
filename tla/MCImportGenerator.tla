-------------------------- MODULE MCImportGenerator --------------------------
(***************************************************************************)
(* A small instance of ImportGenerator: two users, an account with and     *)
(* without a partition, two TRES types, values around the defaults.        *)
(***************************************************************************)
EXTENDS ImportGenerator

CONSTANTS alice, bob, gpu, cpu, gres

Blank == [s \in Slots |-> Null]
With(v, a, t, n) == [v EXCEPT ![<<a, t>>] = n]

\* Nothing; limits for both types; for one, with a number; numbers around zero.
MCAccountLimits == {
  Blank,
  With(With(Blank, "max_tres", cpu, 5), "max_tres", gres, 5),
  With(With(Blank, "max_tres", cpu, 5), "max_jobs", Whole, 5),
  With(With(Blank, "max_tres", gres, 0), "max_jobs", Whole, 0) }

\* A default association; weights; own limits equal to the account's, zero and
\* others; lists with one type, with both, with a zero.
MCOwned == {
  Default,
  With(Default, "fairshare", Whole, 5),
  With(With(Default, "fairshare", Whole, 0), "max_jobs", Whole, 5),
  With(With(Default, "max_jobs", Whole, 0), "grp_jobs", Whole, 5),
  With(With(Default, "max_jobs", Whole, 1), "max_tres", cpu, 5),
  With(Default, "max_tres", gres, 1),
  With(With(Default, "max_tres", cpu, 0), "max_tres", gres, 1),
  With(With(Default, "max_tres", cpu, 0), "grp_tres", gres, 0),
  With(With(Default, "grp_tres", cpu, 5), "grp_tres", gres, 0) }
=============================================================================
