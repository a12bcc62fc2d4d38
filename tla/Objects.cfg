SPECIFICATION Spec
INVARIANTS CopiesFollowStore VolumesHeld WalksWhole AuthorityBounded
PROPERTIES ChangesOnlyWhatWasAsked ObjectsSettle
CHECK_DEADLOCK FALSE
