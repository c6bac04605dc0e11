---------------------------- MODULE PluginSchemas ----------------------------
(***************************************************************************)
(* The twenty migrations of tidal/persistence.py and the seventy-three of  *)
(* subsonic/persistence.py, these in groups, and the columns that the      *)
(* queries of the two plugins name.                                        *)
(***************************************************************************)
EXTENDS SqlMigration

-----------------------------------------------------------------------------
(* The tidal plugin. *)

LOCAL played == "played_track_v1"
LOCAL tile   == "tile_image_v1"
LOCAL albums == "album_metadata_cache_v1"

migration_0 == Migration(0, <<
  Create(played, {"track_id", "play_count", "last_played"}),
  Index("idx_last_played", played, {"last_played"}),
  Index("idx_play_count", played, {"play_count"})>>)
migration_1 == Migration(1, <<Create(tile, {"tile_type", "tile_id", "tile_image"})>>)
migration_2 == Migration(2, AddAll(played, <<"album_id", "album_track_count">>))
migration_3 == Migration(3, <<Index("idx_album_id", played, {"album_id"})>>)
\* Mutant of migration_4: the column is not added.
migration_4_forgotten == Migration(4, <<>>)
migration_4 == Migration(4, <<Add(tile, "update_time")>>)
migration_5 == Migration(5, AddAll(played, <<"track_name", "track_duration", "track_num",
  "volume_num", "is_multidisc_album", "album_num_volumes", "album_name", "album_artist_name",
  "audio_quality", "image_url">>))
migration_6_7 == OneColumnEach(6, played, <<"explicit", "artist_name">>)
migration_8 == Migration(8, <<DropColumn(played, "is_multidisc_album")>>)
migration_9 == Migration(9, <<Add(played, "album_duration")>>)
migration_10 == Migration(10, <<Index("idx_tile_type_and_id", tile, {"tile_type", "tile_id"})>>)
migration_11 == Migration(11, AddAll(played, <<"bit_depth", "sample_rate">>))
do_migration_listen_queue(kind, id) == <<CreateIfNew("listen_" \o kind \o "_queue_v1", {id, "created_timestamp"})>>
migration_12_14 == <<
  Migration(12, do_migration_listen_queue("album", "album_id")),
  Migration(13, do_migration_listen_queue("artist", "artist_id")),
  Migration(14, do_migration_listen_queue("track", "track_id"))>>
migration_15 == Migration(15, <<CreateIfNew(albums, {"album_id", "name", "artist_id",
  "artist_name", "explicit", "release_date", "available_release_date", "image_url",
  "audio_modes", "audio_quality", "media_metadata_tags", "created_timestamp"})>>)
migration_16_19 == <<
  Migration(16, AddAll(albums, <<"duration", "num_volumes", "num_tracks">>)),
  Migration(17, <<Add(albums, "user_date_added")>>),
  Migration(18, AddAll(albums, <<"artist_id_list", "artist_name_list">>)),
  Migration(19, <<Add(albums, "artist_image_url_list")>>)>>

TidalMigrations ==
  <<migration_0, migration_1, migration_2, migration_3, migration_4, migration_5>>
  \o migration_6_7 \o <<migration_8, migration_9, migration_10, migration_11>>
  \o migration_12_14 \o <<migration_15>> \o migration_16_19

\* What the statements of the module name: insert_playback, the selection of
\* played tracks, the tile images, the listen queues, the album metadata.
PlaybackColumns == {"track_id", "album_id", "album_track_count", "track_name",
  "track_duration", "track_num", "volume_num", "album_num_volumes", "album_name",
  "audio_quality", "album_artist_name", "image_url", "explicit", "artist_name",
  "album_duration", "bit_depth", "sample_rate", "play_count", "last_played"}
AlbumColumns == {"album_id", "name", "artist_id", "artist_name", "explicit", "release_date",
  "available_release_date", "image_url", "audio_modes", "audio_quality",
  "media_metadata_tags", "duration", "num_volumes", "num_tracks", "user_date_added",
  "artist_id_list", "artist_name_list", "artist_image_url_list", "created_timestamp"}
TidalUses ==
  Objects(played, PlaybackColumns) \cup Objects(albums, AlbumColumns)
  \cup Objects(tile, {"tile_type", "tile_id", "tile_image", "update_time"})
  \cup UNION {Objects("listen_" \o k \o "_queue_v1", {k \o "_id", "created_timestamp"})
              : k \in {"album", "artist", "track"}}

-----------------------------------------------------------------------------
(* The subsonic plugin. *)

LOCAL album    == "album_metadata_v1"
LOCAL artist   == "artist_metadata_v1"
LOCAL song     == "song_metadata_v1"
LOCAL property == "album_property_v1"
LOCAL stamps   == {"created_timestamp", "updated_timestamp"}

\* A table of values that an album or a song has several of.
create_multivalue(t, names) == Create(t, names \cup {"id", "created_timestamp"})

migrations_0_13 ==
  <<Migration(0, <<>>),
    Migration(1, <<Create(album, {"album_id", "quality_badge"} \cup stamps)>>),
    Migration(2, <<Create("kv_cache_v1", {"partition", "key", "value"} \cup stamps)>>),
    Migration(3, <<Create(artist, {"artist_id", "artist_name"} \cup stamps)>>),
    Migration(4, <<Add(artist, "artist_musicbrainz_id")>>),
    Migration(5, <<Add(album, "album_musicbrainz_id")>>),
    Migration(6, <<Add(album, "album_artist_id")>>),
    Migration(7, <<Add(artist, "artist_album_count")>>),
    Migration(8, <<Add(artist, "artist_cover_art")>>),
    Migration(9, <<Add(album, "album_path")>>),
    Migration(10, <<Add(artist, "artist_media_type")>>),
    Migration(11, <<Create("artist_role_v1", {"artist_id", "artist_role"})>>),
    Migration(12, <<Add(artist, "artist_sort_name")>>),
    Migration(13, <<Index("idx_updated_timestamp", artist, {"updated_timestamp"}),
                    Index("idx_updated_timestamp", album, {"updated_timestamp"})>>)>>

migrations_14_29 == OneColumnEach(14, album, <<"album_artist", "album_cover_art",
  "album_name", "album_song_count", "album_duration", "album_created", "album_year",
  "album_genre", "album_user_rating", "album_display_artist", "explicit_status",
  "album_is_compilation", "album_play_count", "album_played", "album_sort_name",
  "album_version">>)

migrations_30_34 ==
  <<Migration(30, AddAll(album, <<"album_orig_rel_date_year", "album_orig_rel_date_month",
      "album_orig_rel_date_day", "album_rel_date_year", "album_rel_date_month", "album_rel_date_day">>)),
    Migration(31, <<Create("album_artist_v1", {"id", "album_id", "artist_id", "artist_name"})>>),
    Migration(32, <<Create("album_disc_v1", {"album_id", "disc_num", "disc_title"})>>),
    Migration(33, <<Index("idx_artist_occurrence", "album_artist_v1", {"album_id", "artist_id"}),
                    Index("idx_disc_index", "album_disc_v1", {"album_id", "disc_num"})>>),
    Migration(34, <<Add("album_artist_v1", "created_timestamp"), Add("album_disc_v1", "created_timestamp")>>)>>

create_table_song_metadata == Create(song, {"song_id", "song_title", "song_album_id",
  "song_artist_id", "song_artist", "song_comment", "song_bitdepth", "song_bitrate",
  "song_channel_count", "song_sampling_rate", "song_size", "song_suffix",
  "song_disc_number", "song_track", "song_type", "song_duration", "song_content_type",
  "song_cover_art", "song_created", "song_display_album_artist", "song_display_artist",
  "song_explicit_status", "song_genre", "song_is_dir", "song_media_type",
  "song_musicbrainz_id", "song_path", "song_play_count", "song_played", "song_year"} \cup stamps)

migrations_35_45 ==
  <<Migration(35, <<create_multivalue("album_genre_v1", {"album_id", "album_genre"})>>),
    Migration(36, <<create_multivalue("album_record_label_v1", {"album_id", "album_record_label"})>>),
    Migration(37, <<Add(album, "album_track_quality_summary")>>),
    Migration(38, <<create_multivalue("album_mood_v1", {"album_id", "album_mood"})>>),
    Migration(39, <<create_multivalue("album_release_type_v1", {"album_id", "album_release_type"})>>),
    Migration(40, <<create_table_song_metadata>>),
    Migration(41, AddAll(song, <<"song_display_composer", "song_sort_name">>)),
    Migration(42, <<Create("album_cover_art_by_artist_v1",
      {"artist_id", "album_id", "album_cover_art", "created_timestamp"})>>),
    Migration(43, <<Index("idx_cover_art", "album_cover_art_by_artist_v1", {"album_cover_art"})>>),
    Migration(44, <<Index("idx_cover_art", album, {"album_cover_art"})>>),
    Migration(45, <<Index("idx_cover_art", artist, {"artist_cover_art"})>>)>>

migrations_46_56 ==
  <<Migration(46, <<create_multivalue("song_album_artist_v1", {"song_id", "song_album_artist_id"})>>),
    Migration(47, <<create_multivalue("song_artist_v1", {"song_id", "song_artist_id"})>>),
    Migration(48, <<Add("song_album_artist_v1", "song_album_id")>>),
    Migration(49, <<Add("song_artist_v1", "song_album_id")>>),
    Migration(50, <<Index("idx_cover_art", song, {"song_cover_art"})>>),
    Migration(51, <<create_multivalue("song_contributor_v1", {"song_id", "song_artist_id",
      "song_contributor_role", "song_contributor_sub_role", "song_album_id"})>>),
    Migration(52, <<Index("idx_artist_id", album, {"album_artist_id"})>>),
    Migration(53, <<Drop("album_cover_art_by_artist_v1",
      {"artist_id", "album_id", "album_cover_art", "created_timestamp", "idx_cover_art"})>>),
    Migration(54, <<Add(song, "song_lossless_status")>>),
    Migration(55, <<Create(property, {"album_id", "album_property_key", "album_property_value"} \cup stamps)>>),
    Migration(56, <<Index("idx_album_key", property, {"album_id", "album_property_key"})>>)>>

migrations_57_66 == OneColumnEach(57, album, <<"album_average_bitrate", "album_lossless_status",
  "album_orig_rel_date_str", "album_rel_date_str", "album_genre_list", "album_mood_list",
  "album_record_label_list", "album_release_type_list", "album_disc_count", "album_media_type">>)

migrations_67_72 ==
  <<Migration(67, <<Add(song, "song_starred")>>),
    Migration(68, <<Add(album, "album_starred")>>),
    Migration(69, <<Add(artist, "artist_starred")>>),
    Migration(70, <<Index("idx_key_value", property, {"album_property_key", "album_property_value"})>>),
    Migration(71, <<Update(artist, {"artist_sort_name", "artist_name"})>>),
    Migration(72, <<Add(album, "album_replay_gain")>>)>>

SubsonicMigrations == migrations_0_13 \o migrations_14_29 \o migrations_30_34 \o migrations_35_45
  \o migrations_46_56 \o migrations_57_66 \o migrations_67_72

\* The columns of the metadata models, all of them read and written.
ArtistMetadataModel == {"artist_id", "artist_name", "artist_musicbrainz_id", "artist_album_count",
  "artist_cover_art", "artist_media_type", "artist_sort_name", "artist_starred"} \cup stamps
AlbumMetadataModel == {"album_id", "quality_badge", "album_musicbrainz_id", "album_artist_id", "album_path",
  "album_artist", "album_name", "album_cover_art", "album_disc_count", "album_song_count",
  "album_duration", "album_created", "album_year", "album_genre", "album_genre_list",
  "album_user_rating", "album_display_artist", "explicit_status", "album_is_compilation",
  "album_play_count", "album_played", "album_sort_name", "album_version",
  "album_orig_rel_date_year", "album_orig_rel_date_month", "album_orig_rel_date_day",
  "album_orig_rel_date_str", "album_rel_date_year", "album_rel_date_month",
  "album_rel_date_day", "album_rel_date_str", "album_track_quality_summary",
  "album_average_bitrate", "album_lossless_status", "album_mood_list",
  "album_record_label_list", "album_release_type_list", "album_media_type",
  "album_starred", "album_replay_gain"} \cup stamps
SongMetadataModel == {"song_id", "song_title", "song_album_id", "song_artist_id", "song_artist",
  "song_comment", "song_bitdepth", "song_bitrate", "song_channel_count",
  "song_sampling_rate", "song_size", "song_suffix", "song_disc_number", "song_track",
  "song_type", "song_duration", "song_content_type", "song_cover_art", "song_created",
  "song_display_album_artist", "song_display_artist", "song_explicit_status",
  "song_genre", "song_is_dir", "song_media_type", "song_musicbrainz_id", "song_path",
  "song_play_count", "song_played", "song_year", "song_display_composer",
  "song_sort_name", "song_lossless_status", "song_starred"} \cup stamps
SongTables ==
  LET ids == {"id", "song_id", "song_album_id", "created_timestamp"} IN
    Objects("song_album_artist_v1", ids \cup {"song_album_artist_id"})
    \cup Objects("song_artist_v1", ids \cup {"song_artist_id"})
    \cup Objects("song_contributor_v1", ids \cup {"song_artist_id", "song_contributor_role",
                                                  "song_contributor_sub_role"})
    \cup Objects(property, {"album_id", "album_property_key", "album_property_value"} \cup stamps)
SubsonicUses == Objects(artist, ArtistMetadataModel) \cup Objects(album, AlbumMetadataModel)
                \cup Objects(song, SongMetadataModel) \cup SongTables
=============================================================================
