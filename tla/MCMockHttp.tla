----------------------------- MODULE MCMockHttp -------------------------------
(* Instance of MockHttp: a fixed path and a template that matches two, every *)
(* kind of handler, and both kinds of authentication.                        *)
EXTENDS MockHttp, TLC

Open == [type |-> "", users |-> {}, claims |-> {}]
Basic == [type |-> "basic", users |-> {"u"}, claims |-> {}]
Bearer == [type |-> "oauth2", users |-> {}, claims |-> {"sub"}]
Unknown == [type |-> "digest", users |-> {}, claims |-> {}]

Static(name, paths, method, code, auth) ==
  [name |-> name, paths |-> paths, method |-> method, code |-> code, script |-> None, auth |-> auth]
Script(name, paths, method, calls, throws, auth) ==
  [name |-> name, paths |-> paths, method |-> method, code |-> 0,
   script |-> [calls |-> calls, throws |-> throws], auth |-> auth]

MCConfigs == {
  \* two methods of one path, then a template that the path also matches
  <<Static("/a", {"/a"}, "GET", 200, Bearer), Script("/a", {"/a"}, "POST", <<201>>, FALSE, Basic),
    Script("/{x}", {"/a", "/b"}, "POST", <<>>, FALSE, Open)>>,
  \* the template first, scripts that answer and throw, a lower-case method
  <<Script("/{x}", {"/a", "/b"}, "GET", <<201>>, TRUE, Open), Static("/a", {"/a"}, "GET", 200, Basic),
    Static("/b", {"/b"}, "get", 200, Open)>>,
  \* no responseCode, and a script that answers twice
  <<Static("/b", {"/b"}, "GET", 0, Open), Script("/a", {"/a"}, "POST", <<201, 404>>, FALSE, Bearer)>>,
  <<Static("/b", {"/b"}, "get", 200, Open), Static("/a", {"/a"}, "GET", 404, Basic)>>,
  \* informational statuses, and one that is none after the first
  <<Static("/b", {"/b"}, "GET", 103, Open), Script("/a", {"/a"}, "POST", <<103, 0>>, TRUE, Basic)>>,
  <<Static("/b", {"/b"}, "GET", 200, Unknown)>>}

MCCred == {[kind |-> "none"], [kind |-> "basic", user |-> "u"], [kind |-> "basic", user |-> "v"],
           [kind |-> "token", exp |-> None, claims |-> {"sub"}],
           [kind |-> "token", exp |-> 0, claims |-> {"sub", "name"}],
           [kind |-> "token", exp |-> 1, claims |-> {"name"}]}
MCRequest == [path : {"/a", "/b", "/"}, method : {"GET", "POST"}, cred : MCCred]
MCSymmetry == Permutations(Client)
=============================================================================
