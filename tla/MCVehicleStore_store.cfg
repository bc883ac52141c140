\* Two workers, one vehicle that may leave and come back, a second to choose from.
SPECIFICATION FairSpec
CONSTANTS
  Node = {w1, w2}
  Vehicle = {va, vb}
  Request = {r1, r2, r3}
  NoPlan = NoPlan
  NoBooking = NoBooking
  MaxMigrations = 2
INVARIANTS
  TypeOK
  NoLostAssignment
PROPERTIES
  NoCommitAcrossMigration
  BooksAtomically
  EventuallyBooked
