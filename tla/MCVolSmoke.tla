----------------------------- MODULE MCVolSmoke -----------------------------
(* VolSmoke with three meshes: the second is longer than the first and may   *)
(* lose its fire file, the third may lose its smoke file.                    *)
EXTENDS VolSmoke

MCNTimes  == <<1, 2, 1>>
MCMayLose == {<<"fire", 2>>, <<"smoke", 3>>}

(* Nothing looks at data once the user has been impatient, nor at a scratch  *)
(* array that no loader is about to store: neither control nor the           *)
(* properties depend on them.                                                *)
InUse(q, m) == \E l \in Loaders : pc[l] = q /\ at[l].mesh = m /\ buffer[l] = "full"

Scratch ==
  {<<file, full[file[1]][file[2]]>> :
     file \in {f \in Quantities \X Meshes : InUse(f[1], f[2])}}

view ==
  IF patient
  THEN <<target, zip, form, Scratch, entry, drawn, ready, loaded, pc, at, buffer, ui, due>>
  ELSE <<target, loaded, pc, at, ui>>
================================================================================
