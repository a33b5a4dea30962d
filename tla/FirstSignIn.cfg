\* The first sign-in of an account made by the owner: a password to replace and a
\* second step to set up.
SPECIFICATION AuthSpec
CONSTANTS
  Accounts = {a}
  NoAccount = NoAccount
  MaxAsked = 2
  MaxEvents = 1
INVARIANT FirstSignInSettles
CHECK_DEADLOCK FALSE
