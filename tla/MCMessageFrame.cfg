\* Every set of structs added in every order, finish, a second finish,
\* adds refused after finish, and clear; each struct is added at most once.
CONSTANTS
  BufSize = 512
  AddTwice = FALSE
  MaxAdds = 9
SPECIFICATION Spec
INVARIANT TypeOK FinishedLayout RoundTrip
