------------------------------ MODULE MCPageStore ------------------------------
(****************************************************************************)
(* PageStore for TLC, with pages of 18 bytes.  A page has room for two of   *)
(* the small records; the large one fills a page.  The letters are those of *)
(* ASCII, so a length read in the middle of a value is greater than a page. *)
(* One value is empty, as the prompt allows.                                *)
(****************************************************************************)
EXTENDS PageStore

SomeKeys == {<<97>>, <<98>>, <<99, 100>>}

SomeValues(k) ==
  CASE k = <<97>>      -> {<<>>, <<120, 121>>}
    [] k = <<98>>      -> {<<118>>}
    [] k = <<99, 100>> -> {<<108, 109, 110, 111, 112, 113>>}
================================================================================
