----------------------------- MODULE Compilation ----------------------------
(***************************************************************************)
(* Compiling the data schema of a form: its resources are prepared, then   *)
(* what the form edits is projected from them, then that is presented.     *)
(* Each reads what the one before left and changes nothing of it, and what *)
(* one refuses never reaches the next (FormDefinition::compile,            *)
(* analyze_at).                                                            *)
(***************************************************************************)
EXTENDS Rendering

CompilationVars == <<resourceVars, projectionVars, presentationVars, renderingVars>>

CompilationInit == ResourcesInit /\ ProjectionInit /\ PresentationInit /\ RenderingInit

CompilationNext ==
  \/ PreparingNext /\ UNCHANGED <<presentationVars, renderingVars>>
  \/ ProjectingNext /\ UNCHANGED <<presentationVars, renderingVars>>
  \/ Present /\ UNCHANGED <<resourceVars, projectionVars, renderingVars>>
  \/ RenderingNext /\ UNCHANGED <<resourceVars, projectionVars, presentationVars>>

CompilationSpec == CompilationInit /\ [][CompilationNext]_CompilationVars
=============================================================================
